---- MODULE Spec2Model ----
(***************************************************************************)
(* Options-technical hybrid scanner: the setup scorer (trade_setup.py),    *)
(* the level mapper (key_levels.py), the confirmation and risk stages      *)
(* (confirmation.py, risk_management.py) and the per-symbol pipeline of    *)
(* the scanner (scanner.py).                                               *)
(*                                                                         *)
(* Numbers.  Prices, strikes, open interest, RSI, stochastic RSI and GEX   *)
(* are integers.  PCR and VWIV are held in hundredths (0.8 is 80).  A      *)
(* product with a decimal factor is held in hundredths as well             *)
(* (support * 0.99 is support * 99, in hundredths), and a quotient is      *)
(* held as its numerator and denominator and compared by cross             *)
(* multiplication, so that every comparison of the code is exact.          *)
(*                                                                         *)
(* A Python dict is a function whose DOMAIN is its set of keys; a label    *)
(* such as 'weak_bullish' is the sequence of its parts, <<"weak_",         *)
(* "bullish">>, so that str.startswith is a prefix test.                   *)
(***************************************************************************)
EXTENDS Integers, Sequences, FiniteSets, TLC

VARIABLES pc, error, context, levels, setup_results,
          ticker, calls, puts, current_price, max_pain,
          data, confirmation_results, risk_results, result,
          config, market, futures, results, returned

setupVars == <<context, levels, setup_results>>
mapperVars == <<ticker, calls, puts, current_price, max_pain>>
stageVars == <<data, confirmation_results, risk_results, result>>
scanVars == <<config, market, futures, results, returned>>
vars == <<pc, error, setupVars, mapperVars, stageVars, scanVars>>

\* Python's None, where a number is expected (key_levels.py: 'max_pain': None).
None == -1

\* NaN, where an indicator has too few rows behind it; every comparison with
\* NaN is False.
NaN == -2

Gt(a, b) == a # NaN /\ b # NaN /\ a > b
Lt(a, b) == a # NaN /\ b # NaN /\ a < b

\* bool(x) of a number or None.
Truthy(x) == x # None /\ x # 0

\* d.get(k, default) and k in d.
Has(d, k) == k \in DOMAIN d
Get(d, k, default) == IF k \in DOMAIN d THEN d[k] ELSE default

(***************************************************************************)
(* Quotients: [num, den] with den > 0.                                     *)
(***************************************************************************)
Quot(n, d) == [num |-> n, den |-> d]
QLt(a, b) == a.num * b.den < b.num * a.den
QGtInt(a, k) == a.num > k * a.den

(***************************************************************************)
(* trade_setup.py: the three weighted checklists.  Each returns            *)
(* [valid, confidence, reasons]; confidence is 100 * points / max_points.  *)
(***************************************************************************)
Confidence(points, max_points) ==
    IF max_points > 0 THEN Quot(points * 100, max_points) ELSE Quot(0, 1)

\* Candidate with is_valid the opposite test, confidence <= 60
CandidateInverted(points, max_points, reasons) ==
    LET confidence == Confidence(points, max_points)
    IN  [valid |-> ~QGtInt(confidence, 60),
         confidence |-> confidence,
         reasons |-> reasons]

Candidate(points, max_points, reasons) ==
    LET confidence == Confidence(points, max_points)
    IN  [valid |-> QGtInt(confidence, 60),
         confidence |-> confidence,
         reasons |-> reasons]

\* One criterion of a checklist: the weight it adds to max_points, the
\* points it awards and the reason it appends (<<>> when none).
Crit(weight, pts, reason) == [weight |-> weight, points |-> pts, reason |-> reason]

RECURSIVE SumWeights(_), SumPoints(_), AllReasons(_)
SumWeights(cs) == IF cs = <<>> THEN 0 ELSE Head(cs).weight + SumWeights(Tail(cs))
SumPoints(cs) == IF cs = <<>> THEN 0 ELSE Head(cs).points + SumPoints(Tail(cs))
AllReasons(cs) == IF cs = <<>> THEN <<>> ELSE Head(cs).reason \o AllReasons(Tail(cs))

\* levels['support'] and levels['current_price'] <= levels['support'][0] * f
\* reads current_price only when the list is not empty.
NearSupport(lv, pct) ==
    lv.support # <<>> /\ lv.current_price * 100 <= lv.support[1] * pct

NearResistance(lv, pct) ==
    lv.resistance # <<>> /\ lv.current_price * 100 >= lv.resistance[1] * pct

\* abs(current_price - max_pain) / max_pain < pct / 100, max_pain truthy
Abs(x) == IF x < 0 THEN -x ELSE x

NearMaxPain(lv, pct) ==
    Truthy(lv.max_pain)
    /\ Abs(lv.current_price - lv.max_pain) * 100 < pct * lv.max_pain

BullishTrend(ctx) ==
    IF ctx.trend = "bullish"
    THEN Crit(3, 3, <<"Strong bullish trend (EMA alignment)">>)
    ELSE IF ctx.trend = "neutral" THEN Crit(3, 1, <<"Neutral trend">>)
    ELSE Crit(3, 0, <<>>)

\* BullishPcr with the second test an if instead of an elif
BullishPcrBoth(ctx) ==
    IF ctx.pcr < 80 THEN Crit(2, 3, <<"Bullish sentiment", "Neutral sentiment">>)
    ELSE IF ctx.pcr < 100 THEN Crit(2, 1, <<"Neutral sentiment">>)
    ELSE Crit(2, 0, <<>>)

BullishPcr(ctx) ==
    IF ctx.pcr < 80 THEN Crit(2, 2, <<"Bullish sentiment">>)
    ELSE IF ctx.pcr < 100 THEN Crit(2, 1, <<"Neutral sentiment">>)
    ELSE Crit(2, 0, <<>>)

\* BullishRsi with strict bounds on the full band
BullishRsiStrict(ctx) ==
    IF 55 < ctx.rsi /\ ctx.rsi < 80 THEN Crit(2, 2, <<"Bullish momentum">>)
    ELSE IF 45 <= ctx.rsi /\ ctx.rsi < 55 THEN Crit(2, 1, <<"Neutral momentum">>)
    ELSE Crit(2, 0, <<>>)

BullishRsi(ctx) ==
    IF 55 <= ctx.rsi /\ ctx.rsi <= 80 THEN Crit(2, 2, <<"Bullish momentum">>)
    ELSE IF 45 <= ctx.rsi /\ ctx.rsi < 55 THEN Crit(2, 1, <<"Neutral momentum">>)
    ELSE Crit(2, 0, <<>>)

BullishStoch(ctx) ==
    IF ctx.stoch_rsi > 60 THEN Crit(2, 2, <<"Bullish Stochastic RSI">>)
    ELSE IF ctx.stoch_rsi > 40 THEN Crit(2, 1, <<"Neutral Stochastic RSI">>)
    ELSE Crit(2, 0, <<>>)

\* BullishSupport with the weight added only when there is a support level
BullishSupportIfPresent(lv) ==
    IF NearSupport(lv, 102) THEN Crit(3, 3, <<"Price near support">>)
    ELSE IF NearSupport(lv, 105) THEN Crit(3, 1, <<"Price approaching support">>)
    ELSE IF lv.support # <<>> THEN Crit(3, 0, <<>>)
    ELSE Crit(0, 0, <<>>)

BullishSupport(lv) ==
    IF NearSupport(lv, 102) THEN Crit(3, 3, <<"Price near support">>)
    ELSE IF NearSupport(lv, 105) THEN Crit(3, 1, <<"Price approaching support">>)
    ELSE Crit(3, 0, <<>>)

BullishGex(ctx) ==
    IF Get(ctx, "gex", 0) > 500
    THEN Crit(2, 2, <<"Positive GEX indicating bullish stability">>)
    ELSE Crit(2, 0, <<>>)

BullishCriteria(ctx, lv) ==
    <<BullishTrend(ctx), BullishPcr(ctx), BullishRsi(ctx), BullishStoch(ctx),
      BullishSupport(lv), BullishGex(ctx)>>

_evaluate_bullish_setup(ctx, lv) ==
    LET cs == BullishCriteria(ctx, lv)
    IN  Candidate(SumPoints(cs), SumWeights(cs), AllReasons(cs))

BearishTrend(ctx) ==
    IF ctx.trend = "bearish"
    THEN Crit(3, 3, <<"Strong bearish trend (EMA alignment)">>)
    ELSE IF ctx.trend = "neutral" THEN Crit(3, 1, <<"Neutral trend">>)
    ELSE Crit(3, 0, <<>>)

BearishPcr(ctx) ==
    IF ctx.pcr > 120 THEN Crit(2, 2, <<"Bearish sentiment">>)
    ELSE IF ctx.pcr > 100 THEN Crit(2, 1, <<"Neutral sentiment">>)
    ELSE Crit(2, 0, <<>>)

\* BearishRsi with the full band reaching up to 55
BearishRsiWide(ctx) ==
    IF 20 <= ctx.rsi /\ ctx.rsi <= 55 THEN Crit(2, 2, <<"Bearish momentum">>)
    ELSE Crit(2, 0, <<>>)

BearishRsi(ctx) ==
    IF 20 <= ctx.rsi /\ ctx.rsi <= 45 THEN Crit(2, 2, <<"Bearish momentum">>)
    ELSE IF 45 < ctx.rsi /\ ctx.rsi <= 55 THEN Crit(2, 1, <<"Neutral momentum">>)
    ELSE Crit(2, 0, <<>>)

\* BearishStoch with the full points at 40 as well
BearishStochInclusive(ctx) ==
    IF ctx.stoch_rsi <= 40 THEN Crit(2, 2, <<"Bearish Stochastic RSI">>)
    ELSE IF ctx.stoch_rsi < 60 THEN Crit(2, 1, <<"Neutral Stochastic RSI">>)
    ELSE Crit(2, 0, <<>>)

BearishStoch(ctx) ==
    IF ctx.stoch_rsi < 40 THEN Crit(2, 2, <<"Bearish Stochastic RSI">>)
    ELSE IF ctx.stoch_rsi < 60 THEN Crit(2, 1, <<"Neutral Stochastic RSI">>)
    ELSE Crit(2, 0, <<>>)

BearishResistance(lv) ==
    IF NearResistance(lv, 98) THEN Crit(3, 3, <<"Price near resistance">>)
    ELSE IF NearResistance(lv, 95) THEN Crit(3, 1, <<"Price approaching resistance">>)
    ELSE Crit(3, 0, <<>>)

BearishGex(ctx) ==
    IF Get(ctx, "gex", 0) < -500
    THEN Crit(2, 2, <<"Negative GEX indicating bearish pressure">>)
    ELSE Crit(2, 0, <<>>)

BearishCriteria(ctx, lv) ==
    <<BearishTrend(ctx), BearishPcr(ctx), BearishRsi(ctx), BearishStoch(ctx),
      BearishResistance(lv), BearishGex(ctx)>>

_evaluate_bearish_setup(ctx, lv) ==
    LET cs == BearishCriteria(ctx, lv)
    IN  Candidate(SumPoints(cs), SumWeights(cs), AllReasons(cs))

NeutralTrend(ctx) ==
    IF ctx.trend = "neutral" THEN Crit(3, 3, <<"Neutral trend (flat EMAs)">>)
    ELSE Crit(3, 0, <<>>)

NeutralPcr(ctx) ==
    IF 80 <= ctx.pcr /\ ctx.pcr <= 120 THEN Crit(2, 2, <<"Neutral sentiment">>)
    ELSE Crit(2, 0, <<>>)

NeutralIv(ctx) ==
    IF Get(ctx, "vwiv", 0) < 40 THEN Crit(2, 2, <<"Low implied volatility">>)
    ELSE IF Get(ctx, "vwiv", 0) < 50 THEN Crit(2, 1, <<"Moderate implied volatility">>)
    ELSE Crit(2, 0, <<>>)

NeutralRsi(ctx) ==
    IF 45 <= ctx.rsi /\ ctx.rsi <= 65 THEN Crit(2, 2, <<"Neutral momentum">>)
    ELSE Crit(2, 0, <<>>)

NeutralStoch(ctx) ==
    IF 25 <= ctx.stoch_rsi /\ ctx.stoch_rsi <= 75
    THEN Crit(2, 2, <<"Neutral Stochastic RSI">>)
    ELSE Crit(2, 0, <<>>)

NeutralMaxPain(lv) ==
    IF NearMaxPain(lv, 2) THEN Crit(3, 3, <<"Price near Max Pain">>)
    ELSE IF NearMaxPain(lv, 5) THEN Crit(3, 1, <<"Price approaching Max Pain">>)
    ELSE Crit(3, 0, <<>>)

NeutralGex(ctx) ==
    IF Abs(Get(ctx, "gex", 0)) < 200
    THEN Crit(2, 2, <<"GEX near zero indicating potential breakout">>)
    ELSE Crit(2, 0, <<>>)

NeutralCriteria(ctx, lv) ==
    <<NeutralTrend(ctx), NeutralPcr(ctx), NeutralIv(ctx), NeutralRsi(ctx),
      NeutralStoch(ctx), NeutralMaxPain(lv), NeutralGex(ctx)>>

_evaluate_neutral_setup(ctx, lv) ==
    LET cs == NeutralCriteria(ctx, lv)
    IN  Candidate(SumPoints(cs), SumWeights(cs), AllReasons(cs))

(***************************************************************************)
(* A KeyError of levels['current_price']: the failure result of map_levels *)
(* has no such key, and each checklist reads it only behind a non-empty    *)
(* list (or a truthy max_pain).                                            *)
(***************************************************************************)
BullishRaises(lv) == lv.support # <<>> /\ ~Has(lv, "current_price")
BearishRaises(lv) == lv.resistance # <<>> /\ ~Has(lv, "current_price")
NeutralRaises(lv) == Truthy(lv.max_pain) /\ ~Has(lv, "current_price")

\* DetermineSetupRaises with current_price read before the lists are tested
DetermineSetupRaisesEager(lv) == ~Has(lv, "current_price")

DetermineSetupRaises(lv) ==
    BullishRaises(lv) \/ BearishRaises(lv) \/ NeutralRaises(lv)

(***************************************************************************)
(* determine_setup: setups.sort(key=lambda x: (x[2], x[1]), reverse=True)  *)
(* is a stable sort, descending in (is_valid, confidence): elements whose  *)
(* keys are equal keep their order.                                        *)
(***************************************************************************)
\* (a.valid, a.confidence) < (b.valid, b.confidence), False < True
KeyLt(a, b) ==
    \/ (~a.valid /\ b.valid)
    \/ (a.valid = b.valid /\ QLt(a.confidence, b.confidence))

\* InsertDesc with an unstable sort: x goes before the elements of equal key
RECURSIVE InsertDescUnstable(_, _)
InsertDescUnstable(x, sorted) ==
    IF sorted = <<>> THEN <<x>>
    ELSE IF ~KeyLt(x, Head(sorted)) THEN <<x>> \o sorted
    ELSE <<Head(sorted)>> \o InsertDescUnstable(x, Tail(sorted))

\* x goes after every element whose key is not below its own
RECURSIVE InsertDesc(_, _)
InsertDesc(x, sorted) ==
    IF sorted = <<>> THEN <<x>>
    ELSE IF KeyLt(Head(sorted), x) THEN <<x>> \o sorted
    ELSE <<Head(sorted)>> \o InsertDesc(x, Tail(sorted))

RECURSIVE SortDesc(_, _)
SortDesc(todo, sorted) ==
    IF todo = <<>> THEN sorted
    ELSE SortDesc(Tail(todo), InsertDesc(Head(todo), sorted))

Setups(ctx, lv) ==
    LET Entry(name, c) == [name |-> name, confidence |-> c.confidence,
                           valid |-> c.valid, reasons |-> c.reasons]
    IN  << Entry("bullish", _evaluate_bullish_setup(ctx, lv)),
           Entry("bearish", _evaluate_bearish_setup(ctx, lv)),
           Entry("neutral", _evaluate_neutral_setup(ctx, lv)) >>

\* SetupLabel with the test on the confidence reaching 50
SetupLabelHalf(winner) ==
    IF ~QGtInt(winner.confidence, 49) THEN <<"weak_", winner.name>>
    ELSE <<winner.name>>

\* f"weak_{setup_type}" when the winner is not valid
SetupLabel(winner) ==
    IF ~winner.valid THEN <<"weak_", winner.name>> ELSE <<winner.name>>

determine_setup(ctx, lv) ==
    LET setups == Setups(ctx, lv)
        winner == SortDesc(setups, <<>>)[1]
        Summary(e) == [valid |-> e.valid, confidence |-> e.confidence,
                       reasons |-> e.reasons]
    IN  [setup |-> SetupLabel(winner),
         confidence |-> winner.confidence,
         reasons |-> winner.reasons,
         all_setups |-> [bullish |-> Summary(setups[1]),
                         bearish |-> Summary(setups[2]),
                         neutral |-> Summary(setups[3])]]

(***************************************************************************)
(* Inputs of the scorer.  A context is what MarketContextAnalyzer.analyze  *)
(* returns, levels what KeyLevelsMapper.map_levels returns: on success     *)
(* every support is below and every resistance above the current price and *)
(* max_pain is a strike; on failure the lists are empty, max_pain is None  *)
(* and there is no current_price.                                          *)
(***************************************************************************)
Trends == {"bullish", "bearish", "neutral"}
PcrValues == {60, 80, 100, 120, 130}
RsiValues == {10, 45, 50, 55, 65, 80}
StochValues == {20, 40, 60, 70, 80}
VwivValues == {20, 45, 60}
GexValues == {-600, 0, 300, 600}

SupportLists == {<<>>, <<99>>, <<96, 90>>, <<90>>}
ResistanceLists == {<<>>, <<101>>, <<104, 110>>, <<110>>}
MaxPainValues == {100, 97, 110}

SuccessContexts ==
    [trend : Trends, sentiment : {"neutral"}, momentum : {"neutral"},
     pcr : PcrValues, vwiv : VwivValues, gex : GexValues,
     rsi : RsiValues, stoch_rsi : StochValues,
     ema10 : {100}, ema20 : {100}, ema50 : {100},
     success : {TRUE}]

FailureContext ==
    [trend |-> "unknown", sentiment |-> "unknown", momentum |-> "unknown",
     pcr |-> 0, vwiv |-> 0, gex |-> 0, rsi |-> 0, stoch_rsi |-> 0,
     success |-> FALSE]

SuccessLevels ==
    [support : SupportLists, resistance : ResistanceLists,
     max_pain : MaxPainValues, high_gamma : {<<>>},
     current_price : {100}, success : {TRUE}]

FailureLevels ==
    [support |-> <<>>, resistance |-> <<>>, max_pain |-> None,
     high_gamma |-> <<>>, success |-> FALSE]

NoDict == <<>>

(***************************************************************************)
(* key_levels.py: the option tables of the nearest expiration are          *)
(* sequences of rows [strike, openInterest], in the order the data         *)
(* provider returned them.                                                 *)
(***************************************************************************)
MaxRows == 2
Strikes == {90, 100, 110}
OpenInterests == {0, 1}

Rows == [strike : Strikes, openInterest : OpenInterests]
Tables == UNION {[1..n -> Rows] : n \in 0..MaxRows}

IsDict(x) == DOMAIN x # {}

\* StockScanner before scan(): no config read, no symbols, nothing submitted,
\* no results
ScanIdle ==
    /\ config = NoDict
    /\ market = <<>>
    /\ futures = <<>>
    /\ results = <<>>
    /\ returned = <<>>

\* ConfirmationModule (self.data = None), and no result of a stage yet
NoData == [len |-> 0]

StagesIdle ==
    /\ data = NoData
    /\ confirmation_results = NoDict
    /\ risk_results = NoDict
    /\ result = NoDict

\* The data provider (yf.Ticker): whether history() gives rows ("ok") or an
\* empty frame ("empty"), the last Close of the history, and whether the
\* option calls give expirations and chains ("ok"), no expiration ("none")
\* or raise ("raises").
Ticker(history, options, close) ==
    [history |-> history, options |-> options, close |-> close]

\* KeyLevelsMapper before _fetch_data
MapperIdle ==
    /\ ticker = Ticker("empty", "none", 0)
    /\ calls = <<>>
    /\ puts = <<>>
    /\ current_price = 0
    /\ max_pain = None

StrikeSet(cs, ps) ==
    {cs[i].strike : i \in 1..Len(cs)} \cup {ps[i].strike : i \in 1..Len(ps)}

Min(S) == CHOOSE m \in S : \A x \in S : m <= x

\* sorted(set(...)): ascending
RECURSIVE Sorted(_)
Sorted(S) == IF S = {} THEN <<>> ELSE <<Min(S)>> \o Sorted(S \ {Min(S)})

\* SortedStrikes without the sort: the distinct strikes in order of appearance
RECURSIVE Distinct(_, _)
Distinct(seq, seen) ==
    IF seq = <<>> THEN <<>>
    ELSE IF Head(seq) \in seen THEN Distinct(Tail(seq), seen)
    ELSE <<Head(seq)>> \o Distinct(Tail(seq), seen \cup {Head(seq)})

StrikesUnsorted(cs, ps) ==
    Distinct([i \in 1..Len(cs) |-> cs[i].strike] \o
             [i \in 1..Len(ps) |-> ps[i].strike], {})

\* strikes = sorted(set(calls['strike'].tolist() + puts['strike'].tolist()))
SortedStrikes(cs, ps) == Sorted(StrikeSet(cs, ps))

Max0(x) == IF x > 0 THEN x ELSE 0

\* sum(calls['openInterest'] * np.maximum(0, strike - calls['strike']))
RECURSIVE CallPain(_, _)
CallPain(cs, strike) ==
    IF cs = <<>> THEN 0
    ELSE Head(cs).openInterest * Max0(strike - Head(cs).strike)
         + CallPain(Tail(cs), strike)

\* sum(puts['openInterest'] * np.maximum(0, puts['strike'] - strike))
RECURSIVE PutPain(_, _)
PutPain(ps, strike) ==
    IF ps = <<>> THEN 0
    ELSE Head(ps).openInterest * Max0(Head(ps).strike - strike)
         + PutPain(Tail(ps), strike)

\* pain: the list of (strike, total_pain), in the order of strikes
PainList(cs, ps, strikes) ==
    [i \in 1..Len(strikes) |->
        <<strikes[i], CallPain(cs, strikes[i]) + PutPain(ps, strikes[i])>>]

\* MinByPain keeping the last of the minimal entries
RECURSIVE MinByPainLast(_, _)
MinByPainLast(pain, best) ==
    IF pain = <<>> THEN best
    ELSE IF Head(pain)[2] <= best[2] THEN MinByPainLast(Tail(pain), Head(pain))
    ELSE MinByPainLast(Tail(pain), best)

\* min(pain, key=lambda x: x[1]): the first of the minimal entries
RECURSIVE MinByPain(_, _)
MinByPain(pain, best) ==
    IF pain = <<>> THEN best
    ELSE IF Head(pain)[2] < best[2] THEN MinByPain(Tail(pain), Head(pain))
    ELSE MinByPain(Tail(pain), best)

_calculate_max_pain(cs, ps, price) ==
    LET pain == PainList(cs, ps, SortedStrikes(cs, ps))
    IN  IF pain # <<>> THEN MinByPain(Tail(pain), Head(pain))[1] ELSE price

(***************************************************************************)
(* Specification SpecLevels: the level mapper on every pair of option      *)
(* tables of at most MaxRows rows.                                         *)
(***************************************************************************)
SetupIdle ==
    /\ context = FailureContext
    /\ levels = FailureLevels
    /\ setup_results = NoDict

InitLevels ==
    /\ pc = "fetched"
    /\ error = "none"
    /\ ticker = Ticker("ok", "ok", 100)
    /\ calls \in Tables
    /\ puts \in Tables
    /\ current_price = 100
    /\ max_pain = None
    /\ SetupIdle
    /\ StagesIdle
    /\ ScanIdle

CalculateMaxPain ==
    /\ pc = "fetched"
    /\ max_pain' = _calculate_max_pain(calls, puts, current_price)
    /\ pc' = "max_pain"
    /\ UNCHANGED <<error, ticker, calls, puts, current_price, setupVars,
                   stageVars, scanVars>>

NextLevels == CalculateMaxPain

SpecLevels == InitLevels /\ [][NextLevels]_vars

(***************************************************************************)
(* Specification SpecSetup: determine_setup on every context and levels    *)
(* (main.py and the web app call it without looking at the success flags). *)
(***************************************************************************)
InitSetup ==
    /\ pc = "start"
    /\ error = "none"
    /\ context \in SuccessContexts \cup {FailureContext}
    /\ levels \in SuccessLevels \cup {FailureLevels}
    /\ setup_results = NoDict
    /\ MapperIdle
    /\ StagesIdle
    /\ ScanIdle

DetermineSetup ==
    /\ pc = "start"
    /\ IF DetermineSetupRaises(levels)
       THEN /\ error' = "KeyError"
            /\ setup_results' = NoDict
       ELSE /\ error' = "none"
            /\ setup_results' = determine_setup(context, levels)
    /\ pc' = "setup"
    /\ UNCHANGED <<context, levels, mapperVars, scanVars, stageVars>>

NextSetup == DetermineSetup

SpecSetup == InitSetup /\ [][NextSetup]_vars

(***************************************************************************)
(* confirmation.py.  self.data is the price history with its indicator     *)
(* columns: len rows, of which the checks read the last (latest) and the   *)
(* one before (prev).  Volume_Ratio is in hundredths.  A check returns     *)
(* (has_signal, signal_strength, reasons).                                 *)
(***************************************************************************)
\* StartsWith holding wherever the prefix occurs in the label
Contains(label, prefix) == \E i \in 1..Len(label) : label[i] = prefix

StartsWith(label, prefix) == label # <<>> /\ label[1] = prefix

\* CheckResult with the signal at 50 as well
CheckResultInclusive(strength, reasons) ==
    [signal |-> strength >= 50, strength |-> strength, reasons |-> reasons]

CheckResult(strength, reasons) ==
    [signal |-> strength > 50, strength |-> strength, reasons |-> reasons]

InsufficientData ==
    [signal |-> FALSE, strength |-> 0, reasons |-> <<"Insufficient data">>]

\* TooShort accepting any history of 2 rows or more
TooShortForPrev(df) == df.len < 2

\* self.data is None or len(self.data) < 5
TooShort(df) == df.len < 5

\* one condition of a check: its weight and reason when it holds
Cond(holds, weight, reason) ==
    IF holds THEN [strength |-> weight, reasons |-> <<reason>>]
    ELSE [strength |-> 0, reasons |-> <<>>]

RECURSIVE SumStrength(_), CondReasons(_)
SumStrength(cs) == IF cs = <<>> THEN 0 ELSE Head(cs).strength + SumStrength(Tail(cs))
CondReasons(cs) == IF cs = <<>> THEN <<>> ELSE Head(cs).reasons \o CondReasons(Tail(cs))

\* abs(close - level) / level < pct / 100
Within(close, level, pct) == Abs(close - level) * 100 < pct * level

_check_bullish_entry(sr, df) ==
    IF TooShort(df) THEN InsufficientData
    ELSE
    LET latest == df.latest
        prev == df.prev
        cs == <<
          Cond(/\ Lt(prev.Stoch_RSI, 60)
               /\ Gt(latest.Stoch_RSI, prev.Stoch_RSI)
               /\ Gt(latest.Stoch_RSI_D, prev.Stoch_RSI_D),
               30, "Stochastic RSI hooking up from below 60"),
          Cond(Gt(latest.Volume_Ratio, 150), 20, "Volume spike"),
          Cond(/\ Has(sr, "support")
               /\ sr.support # <<>>
               /\ Within(latest.Close, sr.support[1], 2),
               25, "Price near support level"),
          Cond(/\ Has(sr, "ema10") /\ Has(sr, "ema20")
               /\ latest.Close > sr.ema10 /\ latest.Close > sr.ema20,
               15, "Price above key EMAs"),
          Cond(/\ Has(sr, "rsi")
               /\ Gt(sr.rsi, prev.RSI) /\ sr.rsi > 50,
               10, "RSI showing upward momentum") >>
    IN  CheckResult(SumStrength(cs), CondReasons(cs))

_check_bearish_entry(sr, df) ==
    IF TooShort(df) THEN InsufficientData
    ELSE
    LET latest == df.latest
        prev == df.prev
        cs == <<
          Cond(/\ Gt(prev.Stoch_RSI, 40)
               /\ Lt(latest.Stoch_RSI, prev.Stoch_RSI)
               /\ Lt(latest.Stoch_RSI_D, prev.Stoch_RSI_D),
               30, "Stochastic RSI hooking down from above 40"),
          Cond(Gt(latest.Volume_Ratio, 150), 20, "Volume spike"),
          Cond(/\ Has(sr, "resistance")
               /\ sr.resistance # <<>>
               /\ Within(latest.Close, sr.resistance[1], 2),
               25, "Price near resistance level"),
          Cond(/\ Has(sr, "ema10") /\ Has(sr, "ema20")
               /\ latest.Close < sr.ema10 /\ latest.Close < sr.ema20,
               15, "Price below key EMAs"),
          Cond(/\ Has(sr, "rsi")
               /\ Lt(sr.rsi, prev.RSI) /\ sr.rsi < 50,
               10, "RSI showing downward momentum") >>
    IN  CheckResult(SumStrength(cs), CondReasons(cs))

_check_neutral_entry(sr, df) ==
    IF TooShort(df) THEN InsufficientData
    ELSE
    LET latest == df.latest
        cs == <<
          Cond(/\ Has(sr, "max_pain")
               /\ Truthy(sr.max_pain)
               /\ Within(latest.Close, sr.max_pain, 1),
               40, "Price stalling at Max Pain"),
          Cond(Has(sr, "vwiv") /\ sr.vwiv < 30, 20, "Low implied volatility"),
          Cond(Has(sr, "rsi") /\ 45 <= sr.rsi /\ sr.rsi <= 55,
               20, "RSI in neutral zone"),
          Cond(Has(sr, "stoch_rsi") /\ 40 <= sr.stoch_rsi /\ sr.stoch_rsi <= 60,
               20, "Stochastic RSI in neutral zone") >>
    IN  CheckResult(SumStrength(cs), CondReasons(cs))

\* prev['ema10'] is read when the first half of the crossover test holds;
\* the history has no 'ema10' column, so the read raises KeyError.
ExitRaises(setup_type, sr, df) ==
    /\ ~TooShort(df)
    /\ Has(sr, "ema10") /\ Has(sr, "ema20")
    /\ \/ StartsWith(setup_type, "bullish") /\ df.latest.Close < sr.ema10
       \/ StartsWith(setup_type, "bearish") /\ df.latest.Close > sr.ema10

_check_exit_signals(setup_type, sr, df) ==
    IF TooShort(df) THEN InsufficientData
    ELSE
    LET latest == df.latest
        prev == df.prev
        bull == StartsWith(setup_type, "bullish")
        bear == StartsWith(setup_type, "bearish")
        rsi == IF Has(sr, "rsi") /\ bull /\ sr.rsi > 80
               THEN Cond(TRUE, 30, "RSI overbought")
               ELSE Cond(Has(sr, "rsi") /\ bear /\ sr.rsi < 20, 30, "RSI oversold")
        stoch == IF bull /\ Gt(prev.Stoch_RSI, latest.Stoch_RSI) /\ Gt(prev.Stoch_RSI, 80)
                 THEN Cond(TRUE, 25, "Stochastic RSI reversing from overbought")
                 ELSE Cond(/\ bear /\ Lt(prev.Stoch_RSI, latest.Stoch_RSI)
                           /\ Lt(prev.Stoch_RSI, 20),
                           25, "Stochastic RSI reversing from oversold")
        level == IF bull /\ Has(sr, "resistance") /\ sr.resistance # <<>>
                 THEN Cond(Within(latest.Close, sr.resistance[1], 1),
                           25, "Price reaching resistance")
                 ELSE Cond(/\ bear /\ Has(sr, "support") /\ sr.support # <<>>
                           /\ Within(latest.Close, sr.support[1], 1),
                           25, "Price reaching support")
        \* reached only when ExitRaises is false: the crossover adds nothing
        cs == <<rsi, stoch, level>>
    IN  CheckResult(SumStrength(cs), CondReasons(cs))

FetchFailed ==
    LET failed == [signal |-> FALSE, strength |-> 0,
                   reasons |-> <<"Failed to fetch data">>]
    IN  [entry |-> failed, exit |-> failed, success |-> FALSE]

\* the dispatch of get_signals on setup_type.startswith(...)
EntryCheck(setup_type, sr, df) ==
    IF StartsWith(setup_type, "bullish") THEN _check_bullish_entry(sr, df)
    ELSE IF StartsWith(setup_type, "bearish") THEN _check_bearish_entry(sr, df)
    ELSE IF StartsWith(setup_type, "neutral") THEN _check_neutral_entry(sr, df)
    ELSE [signal |-> FALSE, strength |-> 0, reasons |-> <<"Unknown setup type">>]

GetSignalsRaises(sr, df) ==
    df.len > 0 /\ ExitRaises(Get(sr, "setup", <<"unknown">>), sr, df)

\* data.len = 0 is the empty history: _fetch_data returns False
get_signals(sr, df) ==
    IF df.len = 0 THEN FetchFailed
    ELSE LET setup_type == Get(sr, "setup", <<"unknown">>)
         IN  [entry |-> EntryCheck(setup_type, sr, df),
              exit |-> _check_exit_signals(setup_type, sr, df),
              success |-> TRUE]

(***************************************************************************)
(* risk_management.py.  Prices returned by the risk stage (stops, risk,    *)
(* reward, target) are in hundredths; base_size is in thousandths and      *)
(* gex_factor in tenths.                                                   *)
(***************************************************************************)
\* GexFactor on gex instead of abs(gex)
GexFactorSigned(gex) ==
    IF gex > 1000 THEN 7 ELSE IF gex > 500 THEN 8 ELSE 10

\* gex_factor, in tenths
GexFactor(gex) ==
    IF Abs(gex) > 1000 THEN 7 ELSE IF Abs(gex) > 500 THEN 8 ELSE 10

_calculate_position_size(sr) ==
    LET iv == Get(sr, "vwiv", 30)
        gex == Get(sr, "gex", 0)
        confidence == Get(sr, "confidence", Quot(50, 1))
        base_size == IF iv < 30 THEN 20
                     ELSE IF iv < 45 THEN 15
                     ELSE IF iv < 60 THEN 10
                     ELSE 5
        gex_factor == GexFactor(gex)
        \* min(confidence / 100, 1.0)
        confidence_factor == IF confidence.num > 100 * confidence.den
                             THEN Quot(1, 1)
                             ELSE Quot(confidence.num, 100 * confidence.den)
        position_size == Quot(base_size * gex_factor * confidence_factor.num,
                              10000 * confidence_factor.den)
    IN  [recommended |-> position_size,
         conservative |-> Quot(position_size.num * 7, position_size.den * 10),
         aggressive |-> Quot(position_size.num * 13, position_size.den * 10),
         factors |-> [iv |-> iv, gex |-> gex, confidence |-> confidence,
                      base_size |-> base_size, gex_factor |-> gex_factor,
                      confidence_factor |-> confidence_factor]]

\* PercentageStop with the stop of the lowest tier at every IV
PercentageStopFlat(iv) == 2

\* percentage_stop, in percent
PercentageStop(iv) ==
    IF iv < 30 THEN 2 ELSE IF iv < 45 THEN 3 ELSE IF iv < 60 THEN 5 ELSE 7

_calculate_stop_loss(sr, setup_type) ==
    LET price == Get(sr, "current_price", 0)
        support_levels == Get(sr, "support", <<>>)
        resistance_levels == Get(sr, "resistance", <<>>)
        ema10 == Get(sr, "ema10", 0)
        ema20 == Get(sr, "ema20", 0)
        iv == Get(sr, "vwiv", 30)
        percentage_stop == PercentageStop(iv)
        technical_stop ==
            IF StartsWith(setup_type, "bullish")
            THEN IF support_levels # <<>> THEN support_levels[1] * 99
                 ELSE IF ema20 > 0 THEN ema20 * 99
                 ELSE price * (100 - percentage_stop)
            ELSE IF StartsWith(setup_type, "bearish")
            THEN IF resistance_levels # <<>> THEN resistance_levels[1] * 101
                 ELSE IF ema20 > 0 THEN ema20 * 101
                 ELSE price * (100 + percentage_stop)
            ELSE price * (100 - percentage_stop)
    IN  IF price = 0
        THEN [technical |-> 0, percentage |-> 0, factors |-> [current_price |-> 0]]
        ELSE [technical |-> technical_stop,
              percentage |-> IF StartsWith(setup_type, "bullish")
                             THEN price * (100 - percentage_stop)
                             ELSE price * (100 + percentage_stop),
              percentage_value |-> percentage_stop,
              factors |-> [current_price |-> price, iv |-> iv,
                           support |-> IF support_levels # <<>>
                                       THEN support_levels[1] ELSE 0,
                           resistance |-> IF resistance_levels # <<>>
                                          THEN resistance_levels[1] ELSE 0,
                           ema10 |-> ema10, ema20 |-> ema20]]

\* Ratio without the test of the risk
RatioUnguarded(reward, risk) == Quot(reward, risk)

\* ratio = reward / risk if risk > 0 else 0
Ratio(reward, risk) == IF risk > 0 THEN Quot(reward, risk) ELSE Quot(0, 1)

_calculate_risk_reward(sr, setup_type, stop_loss) ==
    LET price == Get(sr, "current_price", 0)
        support_levels == Get(sr, "support", <<>>)
        resistance_levels == Get(sr, "resistance", <<>>)
        risk == IF StartsWith(setup_type, "bullish")
                THEN price * 100 - stop_loss.technical
                ELSE IF StartsWith(setup_type, "bearish")
                THEN stop_loss.technical - price * 100
                ELSE Abs(price * 100 - stop_loss.technical)
        reward == IF StartsWith(setup_type, "bullish")
                  THEN IF resistance_levels # <<>>
                       THEN (resistance_levels[1] - price) * 100
                       ELSE price * 5
                  ELSE IF StartsWith(setup_type, "bearish")
                  THEN IF support_levels # <<>>
                       THEN (price - support_levels[1]) * 100
                       ELSE price * 5
                  ELSE price * 2
    IN  IF price = 0
        THEN [ratio |-> Quot(0, 1), reward |-> 0, risk |-> 0]
        ELSE [ratio |-> Ratio(reward, risk),
              reward |-> reward,
              risk |-> risk,
              target_price |-> IF StartsWith(setup_type, "bullish")
                               THEN price * 100 + reward
                               ELSE price * 100 - reward]

get_recommendations(sr) ==
    LET setup_type == Get(sr, "setup", <<"unknown">>)
        stop_loss == _calculate_stop_loss(sr, setup_type)
    IN  [position_size |-> _calculate_position_size(sr),
         stop_loss |-> stop_loss,
         risk_reward |-> _calculate_risk_reward(sr, setup_type, stop_loss),
         success |-> TRUE]

(***************************************************************************)
(* scanner.py: _analyze_symbol runs the stages in turn on one symbol and   *)
(* combines their results into a record, which _apply_filters keeps or     *)
(* drops.  Any exception of a stage is caught and gives None.              *)
(***************************************************************************)
\* default_config['filters'] of _load_config (pcr in hundredths)
\* DefaultFilters with min_confidence 50
LowFilters ==
    [trend |-> {"bullish", "bearish", "neutral"},
     pcr_min |-> 0, pcr_max |-> 200,
     rsi_min |-> 0, rsi_max |-> 100,
     stoch_rsi_min |-> 0, stoch_rsi_max |-> 100,
     min_confidence |-> 50]

DefaultFilters ==
    [trend |-> {"bullish", "bearish", "neutral"},
     pcr_min |-> 0, pcr_max |-> 200,
     rsi_min |-> 0, rsi_max |-> 100,
     stoch_rsi_min |-> 0, stoch_rsi_max |-> 100,
     min_confidence |-> 60]

\* _apply_filters without the test on the confidence
_apply_filters_but_confidence(filters, r) ==
    /\ r.market_context.trend \in filters.trend
    /\ filters.pcr_min <= r.market_context.pcr
    /\ r.market_context.pcr <= filters.pcr_max
    /\ filters.rsi_min <= r.market_context.rsi
    /\ r.market_context.rsi <= filters.rsi_max
    /\ filters.stoch_rsi_min <= r.market_context.stoch_rsi
    /\ r.market_context.stoch_rsi <= filters.stoch_rsi_max

_apply_filters(filters, r) ==
    /\ r.market_context.trend \in filters.trend
    /\ filters.pcr_min <= r.market_context.pcr
    /\ r.market_context.pcr <= filters.pcr_max
    /\ filters.rsi_min <= r.market_context.rsi
    /\ r.market_context.rsi <= filters.rsi_max
    /\ filters.stoch_rsi_min <= r.market_context.stoch_rsi
    /\ r.market_context.stoch_rsi <= filters.stoch_rsi_max
    /\ ~(r.confidence.num < filters.min_confidence * r.confidence.den)

\* the record _analyze_symbol builds (symbol and timestamp left out)
CombinedResult(ctx, lv, sr, conf, risk) ==
    [setup |-> sr.setup,
     confidence |-> sr.confidence,
     reasons |-> sr.reasons,
     entry_signal |-> conf.entry.signal,
     entry_strength |-> conf.entry.strength,
     entry_reasons |-> conf.entry.reasons,
     exit_signal |-> conf.exit.signal,
     exit_strength |-> conf.exit.strength,
     exit_reasons |-> conf.exit.reasons,
     position_size |-> risk.position_size.recommended,
     stop_loss |-> risk.stop_loss.technical,
     risk_reward |-> risk.risk_reward.ratio,
     target_price |-> Get(risk.risk_reward, "target_price", 0),
     current_price |-> lv.current_price,
     market_context |-> [trend |-> ctx.trend, sentiment |-> ctx.sentiment,
                         momentum |-> ctx.momentum, pcr |-> ctx.pcr,
                         rsi |-> ctx.rsi, stoch_rsi |-> ctx.stoch_rsi],
     key_levels |-> [support |-> lv.support, resistance |-> lv.resistance,
                     max_pain |-> lv.max_pain]]

\* what MarketContextAnalyzer.analyze returns in a scan: gex is always 0
PipelineContexts ==
    [trend : Trends, sentiment : {"neutral"}, momentum : {"neutral"},
     pcr : {60, 100, 130}, vwiv : {20, 60}, gex : {0},
     rsi : {45, 65}, stoch_rsi : {40, 70},
     ema10 : {100}, ema20 : {100}, ema50 : {100},
     success : {TRUE}]

\* the history the confirmation stage fetches: empty, 4 rows or 5 rows
Histories ==
    {NoData} \cup
    [len : {4, 5},
     latest : [Close : {100}, Stoch_RSI : {30, 70}, Stoch_RSI_D : {40, 60},
               Volume_Ratio : {100, 200}],
     prev : [Close : {100}, Stoch_RSI : {50}, Stoch_RSI_D : {50}, RSI : {50}]]

(***************************************************************************)
(* Specification SpecPipeline: one run of _analyze_symbol.                 *)
(***************************************************************************)
InitPipeline ==
    /\ pc = "start"
    /\ error = "none"
    /\ context \in PipelineContexts \cup {FailureContext}
    /\ levels \in SuccessLevels \cup {FailureLevels}
    /\ setup_results = NoDict
    /\ MapperIdle
    /\ StagesIdle
    /\ ScanIdle

\* if not context_results['success'] / if not levels_results['success']
ReturnNone ==
    /\ pc = "start"
    /\ ~context.success \/ ~levels.success
    /\ pc' = "done"
    /\ UNCHANGED <<error, setupVars, mapperVars, scanVars, stageVars>>

AnalyzeSetup ==
    /\ pc = "start"
    /\ context.success /\ levels.success
    /\ IF DetermineSetupRaises(levels)
       THEN /\ error' = "KeyError"
            /\ setup_results' = NoDict
            /\ pc' = "done"
       ELSE /\ error' = "none"
            /\ setup_results' = determine_setup(context, levels)
            /\ pc' = "setup"
    /\ UNCHANGED <<context, levels, mapperVars, scanVars, stageVars>>

GetSignals ==
    /\ pc = "setup"
    /\ \E df \in Histories :
          /\ data' = df
          /\ IF GetSignalsRaises(setup_results, df)
             THEN /\ error' = "KeyError"
                  /\ confirmation_results' = NoDict
                  /\ pc' = "done"
             ELSE /\ error' = "none"
                  /\ confirmation_results' = get_signals(setup_results, df)
                  /\ pc' = "signals"
    /\ UNCHANGED <<setupVars, mapperVars, scanVars, risk_results, result>>

GetRecommendations ==
    /\ pc = "signals"
    /\ risk_results' = get_recommendations(setup_results)
    /\ pc' = "risk"
    /\ UNCHANGED <<error, setupVars, mapperVars, scanVars, data, confirmation_results, result>>

Combine ==
    /\ pc = "risk"
    /\ LET r == CombinedResult(context, levels, setup_results,
                               confirmation_results, risk_results)
       IN  result' = IF _apply_filters(DefaultFilters, r) THEN r ELSE NoDict
    /\ pc' = "done"
    /\ UNCHANGED <<error, setupVars, mapperVars, scanVars, data, confirmation_results,
                   risk_results>>

NextPipeline ==
    \/ ReturnNone
    \/ AnalyzeSetup
    \/ GetSignals
    \/ GetRecommendations
    \/ Combine

SpecPipeline == InitPipeline /\ [][NextPipeline]_vars

(***************************************************************************)
(* key_levels.py: map_levels as a whole.  The rows of a chain carry gamma  *)
(* (in hundredths) when the provider gives that column.  A chain has       *)
(* ChainLen rows, one per strike, 10 apart around the price of 100.        *)
(***************************************************************************)
ChainLen == 6
ChainStrike(i) == 100 + 5 * (2 * i - ChainLen - 1)
GammaColumns == {"absent", "low", "first", "last"}

ChainRow(i, oi, g) ==
    IF g = "absent"
    THEN [strike |-> ChainStrike(i), openInterest |-> oi[i]]
    ELSE [strike |-> ChainStrike(i), openInterest |-> oi[i],
          gamma |-> IF g = "low" THEN 5
                    ELSE IF g = "first" /\ i = 1 THEN 10
                    ELSE IF g = "last" /\ i = ChainLen THEN 10
                    ELSE 0]

\* open interest of the rows: at most two rows have none
ChainOpenInterests ==
    {oi \in [1..ChainLen -> OpenInterests] :
        Cardinality({i \in 1..ChainLen : oi[i] = 0}) <= 2}

Chains ==
    {[i \in 1..ChainLen |-> ChainRow(i, oi, g)] :
        oi \in ChainOpenInterests, g \in GammaColumns}

\* 'gamma' in calls.columns
HasGamma(t) == t # <<>> /\ "gamma" \in DOMAIN t[1]

\* MapperFetch looking at the history only
MapperFetchHistoryOnly(tk) == tk.history = "ok"

\* _fetch_data of the mapper: False on an empty history, on no expiration
\* and on an exception of the option calls
MapperFetch(tk) == tk.history = "ok" /\ tk.options = "ok"

\* t.sort_values('openInterest', ascending=False).head(5), as the set of the
\* rows kept.  The sort (quicksort) is not stable: among rows of equal open
\* interest any may come first.
HighOI(t) ==
    {S \in SUBSET (1..Len(t)) :
        /\ Cardinality(S) = (IF Len(t) < 5 THEN Len(t) ELSE 5)
        /\ \A i \in S : \A j \in (1..Len(t)) \ S :
              t[j].openInterest <= t[i].openInterest}

\* [row.strike for the rows of t with index in S]
RECURSIVE StrikesOf(_, _, _)
StrikesOf(t, S, i) ==
    IF i > Len(t) THEN <<>>
    ELSE IF i \in S THEN <<t[i].strike>> \o StrikesOf(t, S, i + 1)
    ELSE StrikesOf(t, S, i + 1)

Range(seq) == {seq[i] : i \in 1..Len(seq)}

RECURSIVE InsertAsc(_, _)
InsertAsc(x, seq) ==
    IF seq = <<>> THEN <<x>>
    ELSE IF x <= Head(seq) THEN <<x>> \o seq
    ELSE <<Head(seq)>> \o InsertAsc(x, Tail(seq))

\* SortedSet without set(): sorted(candidates), duplicates kept
RECURSIVE SortedList(_)
SortedList(seq) ==
    IF seq = <<>> THEN <<>> ELSE InsertAsc(Head(seq), SortedList(Tail(seq)))

\* sorted(set(candidates))
SortedSet(seq) == Sorted(Range(seq))

Reverse(seq) == [i \in 1..Len(seq) |-> seq[Len(seq) + 1 - i]]

\* sorted(set(candidates), reverse=True)
SortedSetDesc(seq) == Reverse(Sorted(Range(seq)))

_identify_support_resistance(cs, ps, price, high_oi_calls, high_oi_puts) ==
    LET Above(t, S) == {i \in S : t[i].strike > price}
        Below(t, S) == {i \in S : t[i].strike < price}
        HighGamma(t) == {i \in 1..Len(t) : t[i].gamma > 5}
        gamma == HasGamma(cs) /\ HasGamma(ps)
        resistance_candidates ==
            StrikesOf(cs, Above(cs, high_oi_calls), 1) \o
            (IF gamma THEN StrikesOf(cs, Above(cs, HighGamma(cs)), 1) ELSE <<>>)
        support_candidates ==
            StrikesOf(ps, Below(ps, high_oi_puts), 1) \o
            (IF gamma THEN StrikesOf(ps, Below(ps, HighGamma(ps)), 1) ELSE <<>>)
    IN  [resistance |-> SortedSet(resistance_candidates),
         support |-> SortedSetDesc(support_candidates)]

_calculate_greeks(cs, ps) ==
    LET HighGamma(t) == {i \in 1..Len(t) : t[i].gamma > 5}
    IN  IF HasGamma(cs) /\ HasGamma(ps)
        THEN SortedSet(StrikesOf(cs, HighGamma(cs), 1) \o
                       StrikesOf(ps, HighGamma(ps), 1))
        ELSE <<>>

map_levels(tk, cs, ps, high_oi_calls, high_oi_puts) ==
    IF ~MapperFetch(tk) THEN FailureLevels
    ELSE LET sr == _identify_support_resistance(cs, ps, tk.close,
                                                high_oi_calls, high_oi_puts)
         IN  [support |-> sr.support,
              resistance |-> sr.resistance,
              max_pain |-> _calculate_max_pain(cs, ps, tk.close),
              high_gamma |-> _calculate_greeks(cs, ps),
              current_price |-> tk.close,
              success |-> TRUE]

(***************************************************************************)
(* Specification SpecMapper: map_levels on every provider outcome and, when *)
(* the fetch succeeds, on every pair of chains.                            *)
(***************************************************************************)
MapperTickers ==
    {Ticker("ok", "ok", 100), Ticker("empty", "ok", 0),
     Ticker("ok", "none", 100), Ticker("ok", "raises", 100)}

InitMapper ==
    /\ pc = "start"
    /\ error = "none"
    /\ ticker \in MapperTickers
    /\ IF MapperFetch(ticker)
       THEN calls \in Chains /\ puts \in Chains
       ELSE calls = <<>> /\ puts = <<>>
    /\ current_price = 0
    /\ max_pain = None
    /\ SetupIdle
    /\ StagesIdle
    /\ ScanIdle

MapLevels ==
    /\ pc = "start"
    /\ \E high_oi_calls \in HighOI(calls), high_oi_puts \in HighOI(puts) :
          levels' = map_levels(ticker, calls, puts, high_oi_calls, high_oi_puts)
    /\ current_price' = IF ticker.history = "ok" THEN ticker.close ELSE current_price
    /\ max_pain' = IF MapperFetch(ticker)
                   THEN _calculate_max_pain(calls, puts, ticker.close)
                   ELSE max_pain
    /\ pc' = "levels"
    /\ UNCHANGED <<error, ticker, calls, puts, context, setup_results,
                   stageVars, scanVars>>

NextMapper == MapLevels

SpecMapper == InitMapper /\ [][NextMapper]_vars

(***************************************************************************)
(* market_context.py.  self.data is the price history with its indicator   *)
(* columns: len rows, of which the analyzer reads the last (latest) and    *)
(* the Close of the fifth from the end (iloc[-5], there when len >= 5).    *)
(* An indicator of window w is NaN on the first w - 1 rows, so the latest  *)
(* value of a history shorter than w is NaN.  Every comparison with NaN is *)
(* False.                                                                  *)
(***************************************************************************)
\* max(a, b, c) and min(a, b, c) of Python: the first argument stays unless
\* a later one compares greater (less)
PyMax(a, b, c) ==
    LET m == IF Gt(b, a) THEN b ELSE a
    IN  IF Gt(c, m) THEN c ELSE m

PyMin(a, b, c) ==
    LET m == IF Lt(b, a) THEN b ELSE a
    IN  IF Lt(c, m) THEN c ELSE m

\* ema_range < 0.01, with ema_range = (max - min) / ema20
EmaConverging(latest) ==
    LET hi == PyMax(latest.ema10, latest.ema20, latest.ema50)
        lo == PyMin(latest.ema10, latest.ema20, latest.ema50)
    IN  /\ hi # NaN /\ lo # NaN /\ latest.ema20 # NaN
        /\ (hi - lo) * 100 < latest.ema20

EmaAligned(latest) ==
    \/ Gt(latest.ema10, latest.ema20) /\ Gt(latest.ema20, latest.ema50)
    \/ Lt(latest.ema10, latest.ema20) /\ Lt(latest.ema20, latest.ema50)

\* self.data.iloc[-5] raises IndexError on a history of fewer than 5 rows
TrendRaises(df) ==
    ~EmaAligned(df.latest) /\ ~EmaConverging(df.latest) /\ df.len < 5

\* recent_change = (latest['Close'] - iloc[-5]['Close']) / iloc[-5]['Close']
\* against 0.02 and -0.02
RecentChange(df) ==
    LET change == (df.latest.Close - df.back.Close) * 100
    IN  IF change > 2 * df.back.Close THEN "bullish"
        ELSE IF change < (-2) * df.back.Close THEN "bearish"
        ELSE "neutral"

_determine_trend(df) ==
    LET latest == df.latest
    IN  IF Gt(latest.ema10, latest.ema20) /\ Gt(latest.ema20, latest.ema50)
        THEN "bullish"
        ELSE IF Lt(latest.ema10, latest.ema20) /\ Lt(latest.ema20, latest.ema50)
        THEN "bearish"
        ELSE IF EmaConverging(latest) THEN "neutral"
        ELSE RecentChange(df)

\* _determine_sentiment with the thresholds of the moderate tier in the high one
SentimentHighAsModerate(pcr, iv) ==
    IF iv < 30 THEN (IF pcr < 70 THEN "bullish"
                     ELSE IF pcr > 130 THEN "bearish" ELSE "neutral")
    ELSE (IF pcr < 80 THEN "bullish"
          ELSE IF pcr > 120 THEN "bearish" ELSE "neutral")

_determine_sentiment(pcr, iv) ==
    IF iv < 30 THEN (IF pcr < 70 THEN "bullish"
                     ELSE IF pcr > 130 THEN "bearish" ELSE "neutral")
    ELSE IF iv < 50 THEN (IF pcr < 80 THEN "bullish"
                          ELSE IF pcr > 120 THEN "bearish" ELSE "neutral")
    ELSE (IF pcr < 50 THEN "bullish"
          ELSE IF pcr > 150 THEN "bearish" ELSE "neutral")

_determine_momentum(df) ==
    LET rsi == df.latest.rsi
        stoch_rsi == df.latest.stoch_rsi
        rsi_signal == IF Gt(rsi, 70) THEN "overbought"
                      ELSE IF Lt(rsi, 30) THEN "oversold"
                      ELSE IF Gt(rsi, 55) THEN "bullish"
                      ELSE IF Lt(rsi, 45) THEN "bearish"
                      ELSE "neutral"
        stoch_signal == IF Gt(stoch_rsi, 80) THEN "overbought"
                        ELSE IF Lt(stoch_rsi, 20) THEN "oversold"
                        ELSE IF Gt(stoch_rsi, 60) THEN "bullish"
                        ELSE IF Lt(stoch_rsi, 40) THEN "bearish"
                        ELSE "neutral"
    IN  IF rsi_signal \in {"bullish", "oversold"}
           /\ stoch_signal \in {"bullish", "oversold"} THEN "bullish"
        ELSE IF rsi_signal \in {"bearish", "overbought"}
                /\ stoch_signal \in {"bearish", "overbought"} THEN "bearish"
        ELSE "neutral"

\* t[column].sum() and (t[a] * t[b]).sum()
RECURSIVE ColumnSum(_, _)
ColumnSum(t, column) ==
    IF t = <<>> THEN 0 ELSE Head(t)[column] + ColumnSum(Tail(t), column)

RECURSIVE ProductSum(_, _, _)
ProductSum(t, a, b) ==
    IF t = <<>> THEN 0 ELSE Head(t)[a] * Head(t)[b] + ProductSum(Tail(t), a, b)

\* the analyzer reads the chain when there is an expiration and no call raises
OptionsRead(tk) == tk.options = "ok"

\* self.pcr in hundredths; the volumes drawn make the quotient exact
PcrOf(tk, cs, ps) ==
    IF OptionsRead(tk) /\ ColumnSum(cs, "volume") > 0
    THEN (ColumnSum(ps, "volume") * 100) \div ColumnSum(cs, "volume")
    ELSE 0

\* self.vwiv in hundredths
VwivOf(tk, cs) ==
    IF OptionsRead(tk) /\ ColumnSum(cs, "volume") > 0
    THEN ProductSum(cs, "impliedVolatility", "volume") \div ColumnSum(cs, "volume")
    ELSE 0

AnalyzeRaises(tk, df) == tk.history = "ok" /\ TrendRaises(df)

analyze(tk, df, cs, ps) ==
    IF tk.history # "ok" THEN FailureContext
    ELSE [trend |-> _determine_trend(df),
          sentiment |-> _determine_sentiment(PcrOf(tk, cs, ps), VwivOf(tk, cs)),
          momentum |-> _determine_momentum(df),
          pcr |-> PcrOf(tk, cs, ps),
          vwiv |-> VwivOf(tk, cs),
          gex |-> 0,
          rsi |-> df.latest.rsi,
          stoch_rsi |-> df.latest.stoch_rsi,
          ema10 |-> df.latest.ema10,
          ema20 |-> df.latest.ema20,
          ema50 |-> df.latest.ema50,
          success |-> TRUE]

(***************************************************************************)
(* Specification SpecContext: analyze() on every provider outcome, history *)
(* and pair of option tables.  Prices and EMAs are around 1000.  The rows  *)
(* of the call table are [volume, impliedVolatility] (hundredths), those   *)
(* of the put table [volume].                                              *)
(***************************************************************************)
HistoryLens == {3, 5, 12, 30, 100}
Ema10Values == {996, 1000, 1004, 1010, 1020}
Ema50Values == {996, 1000, 1004, 1020}

\* the latest value of an indicator of the given window
Indicator(len, window, values) == IF len < window THEN {NaN} ELSE values

LatestRows(len) ==
    [Close : {980, 1000, 1020},
     ema10 : Indicator(len, 10, Ema10Values),
     ema20 : Indicator(len, 20, {1000}),
     ema50 : Indicator(len, 50, Ema50Values),
     rsi : Indicator(len, 14, {50, 60}),
     stoch_rsi : Indicator(len, 14, {50, 70})]

AnalyzerHistories ==
    UNION {IF len < 5
           THEN [len : {len}, latest : LatestRows(len)]
           ELSE [len : {len}, latest : LatestRows(len),
                 back : [Close : {980, 1000, 1040}]] : len \in HistoryLens}

UpToTwo(S) == {<<>>} \cup {<<a>> : a \in S} \cup {<<a, b>> : a \in S, b \in S}

CallVolumeTables == UpToTwo([volume : {0, 50}, impliedVolatility : {20, 60}])
PutVolumeTables == UpToTwo([volume : {30, 75}])

InitContext ==
    /\ pc = "start"
    /\ error = "none"
    /\ context = NoDict
    /\ levels = FailureLevels
    /\ setup_results = NoDict
    /\ \E history \in {"ok", "empty"}, options \in {"ok", "none", "raises"} :
          /\ IF history = "ok"
             THEN data \in AnalyzerHistories
             ELSE data = NoData
          /\ ticker = Ticker(history, options,
                             IF history = "ok" THEN data.latest.Close ELSE 0)
          /\ IF history = "ok" /\ options = "ok"
             THEN calls \in CallVolumeTables /\ puts \in PutVolumeTables
             ELSE calls = <<>> /\ puts = <<>>
    /\ current_price = 0
    /\ max_pain = None
    /\ confirmation_results = NoDict
    /\ risk_results = NoDict
    /\ result = NoDict
    /\ ScanIdle

Analyze ==
    /\ pc = "start"
    /\ IF AnalyzeRaises(ticker, data)
       THEN /\ error' = "IndexError"
            /\ context' = context
       ELSE /\ error' = "none"
            /\ context' = analyze(ticker, data, calls, puts)
    /\ pc' = "context"
    /\ UNCHANGED <<levels, setup_results, mapperVars, stageVars, scanVars>>

NextContext == Analyze

SpecContext == InitContext /\ [][NextContext]_vars

(***************************************************************************)
(* Inputs of the confirmation and risk stages called on their own: the     *)
(* setup_results they receive is any dict, either the result of            *)
(* determine_setup alone (as the scanner passes it) or one that also       *)
(* carries the context and level fields the stages read.                   *)
(***************************************************************************)
Labels ==
    {<<"bullish">>, <<"bearish">>, <<"neutral">>,
     <<"weak_", "bullish">>, <<"weak_", "bearish">>, <<"weak_", "neutral">>,
     <<"unknown">>}

ScorerOnlyInputs == [setup : Labels, confidence : {Quot(900, 14)}]

ConfirmInputs ==
    ScorerOnlyInputs \cup
    [setup : Labels, confidence : {Quot(900, 14)},
     support : {<<>>, <<99>>, <<100>>}, resistance : {<<>>, <<101>>},
     max_pain : {100}, ema10 : {99, 101}, ema20 : {98, 102},
     rsi : {15, 50, 55, 85}, stoch_rsi : {50}, vwiv : {20}]

\* A history of 30 rows or more has every indicator of the confirmation
\* stage (RSI over 14 rows, the stochastic over 14 more and its signal over
\* 3, the volume average over 20); one of 5 rows has none of them.
LongHistories ==
    [len : {30},
     latest : [Close : {100}, Stoch_RSI : {30, 70, 90}, Stoch_RSI_D : {40, 60},
               Volume_Ratio : {100, 150, 200}],
     prev : [Close : {100}, Stoch_RSI : {15, 50, 85}, Stoch_RSI_D : {50},
             RSI : {40, 60}]]

ShortHistories ==
    [len : {5},
     latest : [Close : {100}, Stoch_RSI : {NaN}, Stoch_RSI_D : {NaN},
               Volume_Ratio : {NaN}],
     prev : [Close : {100}, Stoch_RSI : {NaN}, Stoch_RSI_D : {NaN},
             RSI : {NaN}]]

\* the histories of the pipeline, a history of a single row, and the
\* histories above
ConfirmHistories ==
    Histories \cup LongHistories \cup ShortHistories \cup
    [len : {1},
     latest : [Close : {100}, Stoch_RSI : {30, 70}, Stoch_RSI_D : {40, 60},
               Volume_Ratio : {100, 200}]]

(***************************************************************************)
(* Specification SpecConfirm: each check of the confirmation module on     *)
(* every input dict and history, the module holding the history in         *)
(* self.data (NoData: nothing loaded).                                     *)
(***************************************************************************)
InitConfirm ==
    /\ pc = "start"
    /\ error = "none"
    /\ context = FailureContext
    /\ levels = FailureLevels
    /\ setup_results \in ConfirmInputs
    /\ MapperIdle
    /\ data \in ConfirmHistories
    /\ confirmation_results = NoDict
    /\ risk_results = NoDict
    /\ result = NoDict
    /\ ScanIdle

CheckBullishEntry ==
    /\ pc = "start"
    /\ confirmation_results' = _check_bullish_entry(setup_results, data)
    /\ pc' = "bullish_entry"
    /\ UNCHANGED <<error, setupVars, mapperVars, scanVars, data, risk_results,
                   result>>

CheckBearishEntry ==
    /\ pc = "start"
    /\ confirmation_results' = _check_bearish_entry(setup_results, data)
    /\ pc' = "bearish_entry"
    /\ UNCHANGED <<error, setupVars, mapperVars, scanVars, data, risk_results,
                   result>>

CheckNeutralEntry ==
    /\ pc = "start"
    /\ confirmation_results' = _check_neutral_entry(setup_results, data)
    /\ pc' = "neutral_entry"
    /\ UNCHANGED <<error, setupVars, mapperVars, scanVars, data, risk_results,
                   result>>

CheckExitSignals ==
    /\ pc = "start"
    /\ IF ExitRaises(setup_results.setup, setup_results, data)
       THEN /\ error' = "KeyError"
            /\ confirmation_results' = NoDict
       ELSE /\ error' = "none"
            /\ confirmation_results' =
                  _check_exit_signals(setup_results.setup, setup_results, data)
    /\ pc' = "exit"
    /\ UNCHANGED <<setupVars, mapperVars, scanVars, data, risk_results, result>>

NextConfirm ==
    \/ CheckBullishEntry
    \/ CheckBearishEntry
    \/ CheckNeutralEntry
    \/ CheckExitSignals

SpecConfirm == InitConfirm /\ [][NextConfirm]_vars

(***************************************************************************)
(* Specification SpecRisk: get_recommendations on every input dict.        *)
(***************************************************************************)
Confidences == {Quot(0, 1), Quot(900, 14), Quot(100, 1), Quot(150, 1)}

RiskInputs ==
    ScorerOnlyInputs \cup
    [setup : Labels, confidence : Confidences,
     current_price : {0, 100},
     support : {<<>>, <<99>>, <<96, 90>>},
     resistance : {<<>>, <<101>>, <<104, 110>>},
     ema10 : {100}, ema20 : {0, 100, 102},
     vwiv : {29, 30, 45, 59, 60},
     gex : {-1001, -501, 0, 500, 501, 1000, 1001}]

InitRisk ==
    /\ pc = "start"
    /\ error = "none"
    /\ context = FailureContext
    /\ levels = FailureLevels
    /\ setup_results \in RiskInputs
    /\ MapperIdle
    /\ StagesIdle
    /\ ScanIdle

Recommend ==
    /\ pc = "start"
    /\ risk_results' = get_recommendations(setup_results)
    /\ pc' = "risk"
    /\ UNCHANGED <<error, setupVars, mapperVars, scanVars, data,
                   confirmation_results, result>>

NextRisk == Recommend

SpecRisk == InitRisk /\ [][NextRisk]_vars

(***************************************************************************)
(* scanner.py: scan().  market[i] is what the provider gives for the i-th  *)
(* symbol: the results of analyze and map_levels, the history of the       *)
(* confirmation stage, and the stage (if any) at which the analysis of the *)
(* symbol raises an exception.  futures[i] is the task submitted for the   *)
(* symbol; results is self.results.                                        *)
(***************************************************************************)
NumSymbols == 3

\* _analyze_symbol: the pipeline inside try / except Exception, None (NoDict)
\* for a failed stage, an exception or a record the filters drop
_analyze_symbol(filters, symbol, w) ==
    IF w.raises # "none" THEN NoDict
    ELSE IF ~w.context.success THEN NoDict
    ELSE IF ~w.levels.success THEN NoDict
    ELSE IF DetermineSetupRaises(w.levels) THEN NoDict
    ELSE LET sr == determine_setup(w.context, w.levels)
         IN  IF GetSignalsRaises(sr, w.data) THEN NoDict
             ELSE LET r == CombinedResult(w.context, w.levels, sr,
                                          get_signals(sr, w.data),
                                          get_recommendations(sr))
                      record == [k \in DOMAIN r \cup {"symbol"} |->
                                    IF k = "symbol" THEN symbol ELSE r[k]]
                  IN  IF _apply_filters(filters, r) THEN record ELSE NoDict

\* Appended dropping what was collected when a task gives no record
AppendedOrReset(rs, r) == IF r # NoDict THEN Append(rs, r) ELSE <<>>

\* if result: self.results.append(result)
Appended(rs, r) == IF r # NoDict THEN Append(rs, r) ELSE rs

\* SortByConfidence leaving the list as it was collected
Unsorted(seq) == seq

\* self.results.sort(key=lambda x: x['confidence'], reverse=True): stable
RECURSIVE InsertByConfidence(_, _)
InsertByConfidence(x, seq) ==
    IF seq = <<>> THEN <<x>>
    ELSE IF QLt(x.confidence, Head(seq).confidence)
    THEN <<Head(seq)>> \o InsertByConfidence(x, Tail(seq))
    ELSE <<x>> \o seq

RECURSIVE SortByConfidence(_)
SortByConfidence(seq) ==
    IF seq = <<>> THEN <<>>
    ELSE InsertByConfidence(Head(seq), SortByConfidence(Tail(seq)))

\* the symbols of the scan: a strong and a moderate bullish setup, a weak
\* setup, a symbol without price history and symbols whose analysis raises
BullishContext(pcr, rsi) ==
    [trend |-> "bullish", sentiment |-> "neutral", momentum |-> "neutral",
     pcr |-> pcr, vwiv |-> 20, gex |-> 0, rsi |-> rsi, stoch_rsi |-> 40,
     ema10 |-> 100, ema20 |-> 100, ema50 |-> 100, success |-> TRUE]

NearSupportLevels ==
    [support |-> <<99>>, resistance |-> <<>>, max_pain |-> 97,
     high_gamma |-> <<>>, current_price |-> 100, success |-> TRUE]

FiveRows ==
    [len |-> 5,
     latest |-> [Close |-> 100, Stoch_RSI |-> 70, Stoch_RSI_D |-> 60,
                 Volume_Ratio |-> 200],
     prev |-> [Close |-> 100, Stoch_RSI |-> 50, Stoch_RSI_D |-> 50, RSI |-> 50]]

World(raises, ctx, lv, df) ==
    [raises |-> raises, context |-> ctx, levels |-> lv, data |-> df]

Worlds ==
    {World("none", BullishContext(60, 45), NearSupportLevels, FiveRows),
     World("none", BullishContext(100, 45), NearSupportLevels, FiveRows),
     World("none", BullishContext(130, 65), NearSupportLevels, FiveRows),
     World("none", FailureContext, FailureLevels, NoData),
     World("context", NoDict, NoDict, NoData),
     World("signals", BullishContext(60, 45), NearSupportLevels, FiveRows)}

\* filters of a user's config.json, merged over the default ones
CustomFilters ==
    [trend |-> {"bullish", "neutral"},
     pcr_min |-> 80, pcr_max |-> 150,
     rsi_min |-> 0, rsi_max |-> 100,
     stoch_rsi_min |-> 0, stoch_rsi_max |-> 100,
     min_confidence |-> 50]

ScanConfigs == [max_workers : {1, 2}, filters : {DefaultFilters, CustomFilters}]

Running == {i \in 1..Len(futures) : futures[i].state = "running"}

(***************************************************************************)
(* Specification SpecScan: one call of scan(), the worker threads of the   *)
(* pool and the loop over as_completed interleaved.                        *)
(***************************************************************************)
InitScan ==
    /\ pc = "start"
    /\ error = "none"
    /\ SetupIdle
    /\ MapperIdle
    /\ StagesIdle
    /\ config \in ScanConfigs
    /\ market \in [1..NumSymbols -> Worlds]
    /\ futures = <<>>
    /\ results = <<>>
    /\ returned = <<>>

\* self.results = [] and executor.submit for every symbol
SubmitAll ==
    /\ pc = "start"
    /\ results' = <<>>
    /\ futures' = [i \in 1..Len(market) |-> [state |-> "pending"]]
    /\ pc' = "collect"
    /\ UNCHANGED <<error, setupVars, mapperVars, stageVars, config, market, returned>>

\* a free worker of the pool takes the first pending task of the work queue
StartTask(i) ==
    /\ futures[i].state = "pending"
    /\ \A j \in 1..(i - 1) : futures[j].state # "pending"
    /\ Cardinality(Running) < config.max_workers
    /\ futures' = [futures EXCEPT ![i] = [state |-> "running"]]
    /\ UNCHANGED <<pc, error, setupVars, mapperVars, stageVars, config, market, returned,
                   results>>

\* the worker returns from _analyze_symbol
FinishTask(i) ==
    /\ futures[i].state = "running"
    /\ futures' = [futures EXCEPT ![i] =
                      [state |-> "done",
                       value |-> _analyze_symbol(config.filters, i, market[i])]]
    /\ UNCHANGED <<pc, error, setupVars, mapperVars, stageVars, config, market, returned,
                   results>>

\* one turn of the loop over as_completed
Collect(i) ==
    /\ pc = "collect"
    /\ futures[i].state = "done"
    /\ results' = Appended(results, futures[i].value)
    /\ futures' = [futures EXCEPT ![i] = [state |-> "collected"]]
    /\ UNCHANGED <<pc, error, setupVars, mapperVars, stageVars, config, market, returned>>

\* after the loop: sort, save and return self.results
FinishScan ==
    /\ pc = "collect"
    /\ \A i \in 1..Len(futures) : futures[i].state = "collected"
    /\ results' = SortByConfidence(results)
    /\ returned' = results'
    /\ pc' = "done"
    /\ UNCHANGED <<error, setupVars, mapperVars, stageVars, config, market,
                   futures>>

NextScan ==
    \/ SubmitAll
    \/ \E i \in 1..Len(futures) : StartTask(i)
    \/ \E i \in 1..Len(futures) : FinishTask(i)
    \/ \E i \in 1..Len(futures) : Collect(i)
    \/ FinishScan

SpecScan == InitScan /\ [][NextScan]_vars

\* the pool runs its tasks and the main thread its loop
SpecScanFair == SpecScan /\ WF_vars(NextScan)

(***************************************************************************)
(* web/app.py: create_app builds one StockScanner, and every POST to       *)
(* /api/scan updates its filters and calls scan() on it; the server runs   *)
(* each request in a thread of its own.  Two requests: pc, futures and     *)
(* returned are per request, config and results (self.config and           *)
(* self.results) are the scanner's.  A record carries the request during   *)
(* which it was built in its timestamp.                                    *)
(***************************************************************************)
Requests == {1, 2}

\* 'timestamp': datetime.now().isoformat(), as the request it falls in
Stamped(r, c) ==
    IF r = NoDict THEN NoDict
    ELSE [k \in DOMAIN r \cup {"timestamp"} |->
             IF k = "timestamp" THEN c ELSE r[k]]

RunningOf(c) == {i \in 1..Len(futures[c]) : futures[c][i].state = "running"}

\* the symbols of the shared scanner: a valid bullish setup and a weak one
SharedWorlds ==
    {World("none", BullishContext(60, 45), NearSupportLevels, FiveRows),
     World("none", BullishContext(130, 65), NearSupportLevels, FiveRows)}

InitShared ==
    /\ pc = [c \in Requests |-> "request"]
    /\ error = "none"
    /\ SetupIdle
    /\ MapperIdle
    /\ StagesIdle
    /\ config \in ScanConfigs
    /\ market \in [1..NumSymbols -> SharedWorlds]
    /\ futures = [c \in Requests |-> <<>>]
    /\ results = <<>>
    /\ returned = [c \in Requests |-> <<>>]

\* scanner.config['filters'].update(filters)
UpdateFilters(c) ==
    /\ pc[c] = "request"
    /\ \E f \in {DefaultFilters, CustomFilters} :
          config' = [config EXCEPT !.filters = f]
    /\ pc' = [pc EXCEPT ![c] = "start"]
    /\ UNCHANGED <<error, setupVars, mapperVars, stageVars, market, futures,
                   results, returned>>

\* self.results = [] and executor.submit for every symbol
SubmitAllOf(c) ==
    /\ pc[c] = "start"
    /\ results' = <<>>
    /\ futures' = [futures EXCEPT ![c] =
                      [i \in 1..Len(market) |-> [state |-> "pending"]]]
    /\ pc' = [pc EXCEPT ![c] = "collect"]
    /\ UNCHANGED <<error, setupVars, mapperVars, stageVars, config, market,
                   returned>>

StartTaskOf(c, i) ==
    /\ futures[c][i].state = "pending"
    /\ \A j \in 1..(i - 1) : futures[c][j].state # "pending"
    /\ Cardinality(RunningOf(c)) < config.max_workers
    /\ futures' = [futures EXCEPT ![c][i] = [state |-> "running"]]
    /\ UNCHANGED <<pc, error, setupVars, mapperVars, stageVars, config, market,
                   results, returned>>

\* the worker returns from _analyze_symbol, which read self.config['filters']
FinishTaskOf(c, i) ==
    /\ futures[c][i].state = "running"
    /\ futures' = [futures EXCEPT ![c][i] =
                      [state |-> "done",
                       value |-> Stamped(_analyze_symbol(config.filters, i,
                                                         market[i]), c)]]
    /\ UNCHANGED <<pc, error, setupVars, mapperVars, stageVars, config, market,
                   results, returned>>

\* self.results.append(result), on the list self.results is bound to now
CollectOf(c, i) ==
    /\ pc[c] = "collect"
    /\ futures[c][i].state = "done"
    /\ results' = Appended(results, futures[c][i].value)
    /\ futures' = [futures EXCEPT ![c][i] = [state |-> "collected"]]
    /\ UNCHANGED <<pc, error, setupVars, mapperVars, stageVars, config, market,
                   returned>>

\* self.results.sort(...) and return self.results
FinishScanOf(c) ==
    /\ pc[c] = "collect"
    /\ \A i \in 1..Len(futures[c]) : futures[c][i].state = "collected"
    /\ results' = SortByConfidence(results)
    /\ returned' = [returned EXCEPT ![c] = results']
    /\ pc' = [pc EXCEPT ![c] = "done"]
    /\ UNCHANGED <<error, setupVars, mapperVars, stageVars, config, market,
                   futures>>

NextShared ==
    \/ \E c \in Requests : UpdateFilters(c)
    \/ \E c \in Requests : SubmitAllOf(c)
    \/ \E c \in Requests : \E i \in 1..Len(futures[c]) : StartTaskOf(c, i)
    \/ \E c \in Requests : \E i \in 1..Len(futures[c]) : FinishTaskOf(c, i)
    \/ \E c \in Requests : \E i \in 1..Len(futures[c]) : CollectOf(c, i)
    \/ \E c \in Requests : FinishScanOf(c)

SpecShared == InitShared /\ [][NextShared]_vars

(***************************************************************************)
(* Claims about the setup scorer, checked under SpecSetup.                 *)
(***************************************************************************)
CandidateNames == <<"bullish", "bearish", "neutral">>
Scored == pc = "setup" /\ error = "none"

QEq(a, b) == a.num * b.den = b.num * a.den

\* a comes strictly before b in descending (is_valid, confidence) order
Beats(a, b) ==
    \/ (a.valid /\ ~b.valid)
    \/ (a.valid = b.valid /\ QLt(b.confidence, a.confidence))

SameKey(a, b) == a.valid = b.valid /\ QEq(a.confidence, b.confidence)

\* the index in bullish, bearish, neutral of the candidate the claim C1 names
ExpectedWinner(all) ==
    CHOOSE i \in 1..3 :
        /\ \A j \in 1..3 : ~Beats(all[CandidateNames[j]], all[CandidateNames[i]])
        /\ \A j \in 1..(i - 1) :
              ~SameKey(all[CandidateNames[j]], all[CandidateNames[i]])

BaseLabel(label) == label[Len(label)]
IsWeak(label) == Len(label) = 2 /\ label[1] = "weak_"

\* C1: the winner of determine_setup is the first candidate in descending
\* (is_valid, confidence) order: no candidate is valid while the winner is
\* not, none of the same validity has a higher confidence, and no earlier
\* candidate in the order bullish, bearish, neutral has the same validity and
\* confidence.
C1_WinnerFirstInOrder ==
    Scored =>
        LET all == setup_results.all_setups
            w == BaseLabel(setup_results.setup)
        IN  /\ w \in {"bullish", "bearish", "neutral"}
            /\ \A n \in {"bullish", "bearish", "neutral"} :
                  /\ all[n].valid => all[w].valid
                  /\ all[n].valid = all[w].valid
                        => ~QLt(all[w].confidence, all[n].confidence)
            /\ (w = "bearish" => ~SameKey(all.bullish, all.bearish))
            /\ (w = "neutral" => /\ ~SameKey(all.bullish, all.neutral)
                                 /\ ~SameKey(all.bearish, all.neutral))

\* the bullish and the bearish candidate tie for the best key, above neutral
C1_Witness ==
    /\ Scored
    /\ setup_results.setup = <<"weak_", "bullish">>
    /\ SameKey(setup_results.all_setups.bullish, setup_results.all_setups.bearish)
    /\ Beats(setup_results.all_setups.bullish, setup_results.all_setups.neutral)

\* C2: the label has the weak_ prefix exactly when the winner is not valid,
\* and then no candidate has a confidence above 60; the rest of the label is
\* the winner's name, and confidence and reasons are the winner's own.
C2_WeakPrefixIffInvalid ==
    Scored =>
        LET r == setup_results
            all == r.all_setups
            w == CandidateNames[ExpectedWinner(all)]
        IN  /\ r.setup \in {<<w>>, <<"weak_", w>>}
            /\ IsWeak(r.setup) <=> ~QGtInt(all[w].confidence, 60)
            /\ IsWeak(r.setup) <=> ~all[w].valid
            /\ IsWeak(r.setup) =>
                  \A n \in {"bullish", "bearish", "neutral"} :
                      ~QGtInt(all[n].confidence, 60)
            /\ r.confidence = all[w].confidence
            /\ r.reasons = all[w].reasons

\* a weak winner whose confidence is between 50 and 60
C2_Witness ==
    /\ Scored
    /\ IsWeak(setup_results.setup)
    /\ QGtInt(setup_results.confidence, 50)
    /\ setup_results.reasons # <<>>

C4_ConfidenceInRange ==
    Scored =>
        \A n \in {"bullish", "bearish", "neutral"} :
            LET c == setup_results.all_setups[n].confidence
            IN  c.den > 0 /\ 0 <= c.num /\ c.num <= 100 * c.den

\* one candidate at 100 and another at 0
C4_Witness ==
    /\ Scored
    /\ setup_results.all_setups.bullish.confidence = Quot(1400, 14)
    /\ setup_results.all_setups.bearish.confidence.num = 0

AllBullishCriteriaMet ==
    /\ context.trend = "bullish"
    /\ context.pcr < 80
    /\ 55 <= context.rsi /\ context.rsi <= 80
    /\ context.stoch_rsi > 60
    /\ levels.support # <<>>
    /\ levels.current_price * 100 <= 102 * levels.support[1]
    /\ context.gex > 500

\* C5: when every bullish criterion is fully met the bullish candidate has
\* 14 of 14 points and determine_setup returns 'bullish' with confidence 100.
C5_FullBullishScores100 ==
    (Scored /\ AllBullishCriteriaMet) =>
        /\ setup_results.all_setups.bullish.confidence = Quot(1400, 14)
        /\ setup_results.all_setups.bullish.valid
        /\ setup_results.setup = <<"bullish">>
        /\ setup_results.confidence.num = 100 * setup_results.confidence.den

\* the criteria met at the edge of the RSI band
C5_Witness ==
    Scored /\ AllBullishCriteriaMet /\ context.rsi = 80

LevelReasons ==
    {"Price near support", "Price approaching support",
     "Price near resistance", "Price approaching resistance",
     "Price near Max Pain", "Price approaching Max Pain"}

\* C6: on the failure result of map_levels determine_setup does not raise,
\* and the support, resistance and max-pain criteria give no points and no
\* reason: each candidate's points are those of its other criteria.
C6_FailureLevelsDoNotRaise ==
    (pc = "setup" /\ levels = FailureLevels) =>
        /\ error = "none"
        /\ LET all == setup_results.all_setups
           IN  /\ \A n \in {"bullish", "bearish", "neutral"} :
                     \A i \in 1..Len(all[n].reasons) :
                         all[n].reasons[i] \notin LevelReasons
               /\ all.bullish.confidence.num = 100 *
                     SumPoints(<<BullishTrend(context), BullishPcr(context),
                                 BullishRsi(context), BullishStoch(context),
                                 BullishGex(context)>>)
               /\ all.bearish.confidence.num = 100 *
                     SumPoints(<<BearishTrend(context), BearishPcr(context),
                                 BearishRsi(context), BearishStoch(context),
                                 BearishGex(context)>>)
               /\ all.neutral.confidence.num = 100 *
                     SumPoints(<<NeutralTrend(context), NeutralPcr(context),
                                 NeutralIv(context), NeutralRsi(context),
                                 NeutralStoch(context), NeutralGex(context)>>)

\* the failure result scored with a context that earns points
C6_Witness ==
    /\ pc = "setup"
    /\ levels = FailureLevels
    /\ context.success
    /\ setup_results.all_setups.bullish.confidence.num = 1100

(***************************************************************************)
(* Claims about the level mapper, checked under SpecLevels.                *)
(***************************************************************************)
RECURSIVE SumOver(_, _)
SumOver(I, f) ==
    IF I = {} THEN 0
    ELSE LET i == CHOOSE j \in I : TRUE IN f[i] + SumOver(I \ {i}, f)

\* total_pain(S) of the claim, summed over the rows of both tables
TotalPain(S) ==
    SumOver(1..Len(calls),
            [i \in 1..Len(calls) |->
                calls[i].openInterest *
                    (IF S > calls[i].strike THEN S - calls[i].strike ELSE 0)])
    + SumOver(1..Len(puts),
              [i \in 1..Len(puts) |->
                  puts[i].openInterest *
                      (IF puts[i].strike > S THEN puts[i].strike - S ELSE 0)])

\* C9: max_pain is the lowest of the strikes of minimal total pain, and the
\* current price when there is no strike.
C9_MaxPainIsLowestArgmin ==
    pc = "max_pain" =>
        LET S == StrikeSet(calls, puts)
        IN  IF S = {} THEN max_pain = current_price
            ELSE /\ max_pain \in S
                 /\ \A s \in S : TotalPain(max_pain) <= TotalPain(s)
                 /\ \A s \in S : TotalPain(s) = TotalPain(max_pain) => max_pain <= s

\* two strikes tie for the minimal pain, which is not zero, and a third
\* strike has more
C9_Witness ==
    /\ pc = "max_pain"
    /\ max_pain = 90
    /\ TotalPain(100) = TotalPain(90)
    /\ TotalPain(90) > 0
    /\ TotalPain(110) > TotalPain(90)
    /\ StrikeSet(calls, puts) = {90, 100, 110}

RowOrders(seq) ==
    {[i \in 1..Len(seq) |-> seq[f[i]]] :
        f \in {g \in [1..Len(seq) -> 1..Len(seq)] :
                  \A i, j \in 1..Len(seq) : g[i] = g[j] => i = j}}

\* C10: max_pain is the same for every order of the rows of the call table
\* and of the put table.
C10_MaxPainPermutationInvariant ==
    pc = "max_pain" =>
        \A cs \in RowOrders(calls) : \A ps \in RowOrders(puts) :
            _calculate_max_pain(cs, ps, current_price) = max_pain

\* both tables have rows of different strikes, and two strikes tie
C10_Witness ==
    /\ pc = "max_pain"
    /\ Len(calls) = 2 /\ calls[1].strike > calls[2].strike
    /\ Len(puts) = 2 /\ puts[1].strike > puts[2].strike
    /\ TotalPain(max_pain) > 0
    /\ \E s \in StrikeSet(calls, puts) :
          s # max_pain /\ TotalPain(s) = TotalPain(max_pain)

(***************************************************************************)
(* Claims about the confirmation and risk stages in the pipeline, checked  *)
(* under SpecPipeline.                                                     *)
(***************************************************************************)
\* C7: for a label with the weak_ prefix get_signals returns the entry
\* result it returns for the label without the prefix on the same data
\* (stated for a history of at least 5 rows, where the checklists run).
C7_WeakLabelDispatch ==
    (pc = "signals" /\ IsWeak(setup_results.setup) /\ data.len >= 5) =>
        confirmation_results.entry =
            get_signals([setup_results EXCEPT !.setup = <<BaseLabel(@)>>],
                        data).entry

StageInputFields ==
    {"current_price", "support", "resistance", "max_pain", "ema10", "ema20",
     "rsi", "stoch_rsi", "vwiv", "gex"}

\* C8: the value passed to the confirmation and risk stages has every field
\* they read, so the record of a bullish winner with a support level has
\* stop_loss = nearest support * 0.99, and risk_reward and target_price
\* computed from the current price and the levels.
C8_PipelinePassesFields ==
    (/\ pc = "done"
     /\ IsDict(result)
     /\ result.setup = <<"bullish">>
     /\ levels.support # <<>>) =>
        LET price == levels.current_price * 100
            stop == levels.support[1] * 99
            reward == IF levels.resistance # <<>>
                      THEN levels.resistance[1] * 100 - price
                      ELSE levels.current_price * 5
        IN  /\ StageInputFields \subseteq DOMAIN setup_results
            /\ result.stop_loss = stop
            /\ result.target_price = price + reward
            /\ result.risk_reward = Quot(reward, price - stop)

(***************************************************************************)
(* Claims about map_levels, checked under SpecMapper.                      *)
(***************************************************************************)
Mapped == pc = "levels" /\ levels.success

\* the row could be among the 5 rows of highest open interest: fewer than 5
\* rows have strictly more
AmongHighOI(t, i) ==
    Cardinality({j \in 1..Len(t) : t[j].openInterest > t[i].openInterest}) < 5

LevelFrom(t, strike) ==
    \E i \in 1..Len(t) :
        /\ t[i].strike = strike
        /\ \/ AmongHighOI(t, i)
           \/ "gamma" \in DOMAIN t[i] /\ t[i].gamma > 5

\* C11: after a successful map_levels the resistance list is strictly
\* ascending and above the current price, the support list strictly
\* descending and below it, every resistance is a call strike and every
\* support a put strike that is among the 5 rows of highest open interest of
\* its side or has gamma > 0.05, and the first element of each list is the
\* nearest to the price.
C11_LevelsOrdered ==
    Mapped =>
        LET r == levels.resistance
            s == levels.support
        IN  /\ \A i \in 1..Len(r) : r[i] > levels.current_price
            /\ \A i \in 1..Len(s) : s[i] < levels.current_price
            /\ \A i \in 1..Len(r), j \in 1..Len(r) : i < j => r[i] < r[j]
            /\ \A i \in 1..Len(s), j \in 1..Len(s) : i < j => s[i] > s[j]
            /\ \A i \in 1..Len(r) : LevelFrom(calls, r[i])
            /\ \A i \in 1..Len(s) : LevelFrom(puts, s[i])
            /\ \A i \in 1..Len(r) :
                  r[1] - levels.current_price <= r[i] - levels.current_price
            /\ \A i \in 1..Len(s) :
                  levels.current_price - s[1] <= levels.current_price - s[i]

\* Both lists have several levels, one call strike above the price was left
\* out (low open interest, no gamma) and one level came in by gamma and open
\* interest at once.
C11_Witness ==
    /\ Mapped
    /\ Len(levels.resistance) >= 2
    /\ Len(levels.support) >= 2
    /\ \E i \in 1..Len(calls) :
          /\ calls[i].strike > levels.current_price
          /\ calls[i].strike \notin Range(levels.resistance)
    /\ \E i \in 1..Len(calls) :
          /\ "gamma" \in DOMAIN calls[i] /\ calls[i].gamma > 5
          /\ calls[i].openInterest = 1
          /\ calls[i].strike \in Range(levels.resistance)

\* C12: with no price history, no expiration or an exception of the option
\* fetch, map_levels returns the failure result (empty lists, max_pain None,
\* success False), raises nothing and leaves self.max_pain untouched.
C12_FailedFetchGivesFailureLevels ==
    (pc = "levels" /\ ~(ticker.history = "ok" /\ ticker.options = "ok")) =>
        /\ error = "none"
        /\ levels.success = FALSE
        /\ levels.support = <<>>
        /\ levels.resistance = <<>>
        /\ levels.high_gamma = <<>>
        /\ levels.max_pain = None
        /\ max_pain = None

C12_Witness ==
    /\ pc = "levels"
    /\ ticker.history = "ok"
    /\ ticker.options = "raises"
    /\ levels = FailureLevels

(***************************************************************************)
(* Claims about the market context analyzer, checked under SpecContext.    *)
(***************************************************************************)
Analyzed == pc = "context" /\ ticker.history = "ok"

\* the classification of the trend, as stated
StatedTrend(df) ==
    LET l == df.latest
        hi == PyMax(l.ema10, l.ema20, l.ema50)
        lo == PyMin(l.ema10, l.ema20, l.ema50)
        change == (l.Close - df.back.Close) * 100
    IN  IF Gt(l.ema10, l.ema20) /\ Gt(l.ema20, l.ema50) THEN "bullish"
        ELSE IF Lt(l.ema10, l.ema20) /\ Lt(l.ema20, l.ema50) THEN "bearish"
        ELSE IF hi # NaN /\ lo # NaN /\ l.ema20 # NaN
                /\ (hi - lo) * 100 < l.ema20 THEN "neutral"
        ELSE IF change > 2 * df.back.Close THEN "bullish"
        ELSE IF change < (-2) * df.back.Close THEN "bearish"
        ELSE "neutral"

\* C13: the trend is bullish on ema10 > ema20 > ema50, bearish on the
\* reverse order, otherwise neutral when the EMAs are within 1% of ema20,
\* otherwise given by the recent price change against +2% and -2%; the
\* result is always one of bullish, bearish, neutral.
C13_TrendClassified ==
    Analyzed =>
        /\ error = "none"
        /\ context # NoDict
        /\ context.trend \in Trends
        /\ context.trend = StatedTrend(data)

\* the part of C13 that holds: whenever a trend is returned it is the one
\* stated
C13_TrendWhenReturned ==
    (Analyzed /\ error = "none") =>
        /\ context.trend \in Trends
        /\ context.trend = StatedTrend(data)

C13_ShortHistoryRaises ==
    /\ Analyzed
    /\ data.len < 5
    /\ error = "IndexError"

\* the neutral band of one tier is inside that of the other, on every PCR
NeutralAt(pcr, iv) == _determine_sentiment(pcr, iv) = "neutral"
TierValues == {20, 40, 60}

\* C19 (as stated): a PCR that is neutral at a lower IV tier is neutral at
\* every higher tier.
C19_NeutralBandOnlyWidens ==
    (Analyzed /\ error = "none") =>
        \A lower \in TierValues, higher \in TierValues :
            (lower < higher /\ NeutralAt(context.pcr, lower))
                => NeutralAt(context.pcr, higher)

\* C19 (amended): the neutral band is [0.7, 1.3] in the low tier, [0.8, 1.2]
\* in the moderate tier and [0.5, 1.5] in the high tier: a PCR neutral in
\* the moderate tier is neutral in the low tier, and a PCR neutral in the
\* low or moderate tier is neutral in the high tier.
C19_NeutralBandNarrowsThenWidens ==
    (Analyzed /\ error = "none") =>
        /\ NeutralAt(context.pcr, 20) <=> (70 <= context.pcr /\ context.pcr <= 130)
        /\ NeutralAt(context.pcr, 40) <=> (80 <= context.pcr /\ context.pcr <= 120)
        /\ NeutralAt(context.pcr, 60) <=> (50 <= context.pcr /\ context.pcr <= 150)
        /\ NeutralAt(context.pcr, 40) => NeutralAt(context.pcr, 20)
        /\ NeutralAt(context.pcr, 20) => NeutralAt(context.pcr, 60)
        /\ context.sentiment = _determine_sentiment(context.pcr, context.vwiv)

\* a PCR of 0.75 with moderate IV: neutral in the low and high tiers, bullish
\* in the moderate one
C19_Witness ==
    /\ Analyzed
    /\ error = "none"
    /\ context.pcr = 75
    /\ context.vwiv = 40
    /\ context.sentiment = "bullish"

OptionsUnavailable ==
    \/ ticker.options \in {"none", "raises"}
    \/ ColumnSum(calls, "volume") = 0

\* C20: with a price history but no usable options chain (no expiration, the
\* fetch raises, or no call volume) analyze() returns success = True with
\* pcr = 0, vwiv = 0, gex = 0 and sentiment 'bullish'.
C20_DegradedOptions ==
    (Analyzed /\ OptionsUnavailable) =>
        /\ error = "none"
        /\ context # NoDict
        /\ context.success
        /\ context.pcr = 0
        /\ context.vwiv = 0
        /\ context.gex = 0
        /\ context.sentiment = "bullish"

C20_DegradedWhenReturned ==
    (Analyzed /\ OptionsUnavailable /\ error = "none") =>
        /\ context.success
        /\ context.pcr = 0
        /\ context.vwiv = 0
        /\ context.gex = 0
        /\ context.sentiment = "bullish"

(***************************************************************************)
(* Claims about the confirmation checks, checked under SpecConfirm.        *)
(***************************************************************************)
Checked == pc \in {"bullish_entry", "bearish_entry", "neutral_entry", "exit"}

\* C14: with nothing loaded or fewer than 5 rows of history each of the four
\* checks returns (False, 0, ['Insufficient data']) whatever the setup type
\* and the other inputs, and raises nothing.
C14_InsufficientData ==
    (Checked /\ data.len < 5) =>
        /\ error = "none"
        /\ confirmation_results # NoDict
        /\ confirmation_results.signal = FALSE
        /\ confirmation_results.strength = 0
        /\ confirmation_results.reasons = <<"Insufficient data">>

\* the exit check on 4 rows, with a bullish label and a Close below ema10 (the
\* input that raises on 5 rows)
C14_Witness ==
    /\ pc = "exit"
    /\ data.len = 4
    /\ setup_results.setup = <<"bullish">>
    /\ Has(setup_results, "ema10")
    /\ data.latest.Close < setup_results.ema10
    /\ data.latest.Volume_Ratio = 200
    /\ confirmation_results = InsufficientData

(***************************************************************************)
(* Claims about the risk manager, checked under SpecRisk.                  *)
(***************************************************************************)
Recommended == pc = "risk"

\* a quotient in lowest terms, and comparisons of quotients in lowest terms
RECURSIVE Gcd(_, _)
Gcd(a, b) == IF b = 0 THEN a ELSE Gcd(b, a % b)

Reduced(q) ==
    IF q.num = 0 THEN Quot(0, 1)
    ELSE Quot(q.num \div Gcd(q.num, q.den), q.den \div Gcd(q.num, q.den))

SameQuot(a, b) == Reduced(a) = Reduced(b)
QLe(a, b) == Reduced(a).num * Reduced(b).den <= Reduced(b).num * Reduced(a).den

\* C15: the ratio is 0 when the current price is 0 and when the computed risk
\* is <= 0, is reward / risk otherwise, and is never negative or infinite
\* (supports below and resistances above the price).
C15_RatioZeroOnNonPositiveRisk ==
    Recommended =>
        LET rr == risk_results.risk_reward
        IN  /\ rr.ratio.den > 0
            /\ rr.ratio.num >= 0
            /\ Get(setup_results, "current_price", 0) = 0 => rr.ratio.num = 0
            /\ rr.risk <= 0 => rr.ratio.num = 0
            /\ rr.risk > 0 => rr.ratio = Quot(rr.reward, rr.risk)

\* a bullish setup without support whose ema20 stop (102 x 0.99) is above the
\* price of 100: the risk is negative
C15_Witness ==
    /\ Recommended
    /\ setup_results.setup = <<"bullish">>
    /\ Get(setup_results, "current_price", 0) = 100
    /\ risk_results.stop_loss.technical = 102 * 99
    /\ risk_results.risk_reward.risk < 0
    /\ risk_results.risk_reward.reward > 0
    /\ risk_results.risk_reward.ratio = Quot(0, 1)

\* base size in thousandths and gamma factor in tenths, as stated
StatedBase(iv) ==
    IF iv < 30 THEN 20 ELSE IF iv < 45 THEN 15 ELSE IF iv < 60 THEN 10 ELSE 5

StatedGexFactor(gex) ==
    IF gex > 1000 \/ gex < -1000 THEN 7
    ELSE IF gex > 500 \/ gex < -500 THEN 8
    ELSE 10

\* base x gex_factor x min(confidence / 100, 1.0)
StatedSize(iv, gex, c) ==
    IF c.num > 100 * c.den
    THEN Quot(StatedBase(iv) * StatedGexFactor(gex), 10000)
    ELSE Quot(StatedBase(iv) * StatedGexFactor(gex) * c.num, 10000 * 100 * c.den)

\* C17: recommended = base x gex_factor x confidence_factor with the stated
\* tiers, conservative = 0.7 x and aggressive = 1.3 x recommended; hence
\* conservative <= recommended <= aggressive and recommended <= 2%.
C17_PositionSize ==
    Recommended =>
        LET ps == risk_results.position_size
            stated == StatedSize(Get(setup_results, "vwiv", 30),
                                 Get(setup_results, "gex", 0),
                                 setup_results.confidence)
        IN  /\ SameQuot(ps.recommended, stated)
            /\ SameQuot(ps.conservative, Quot(7 * stated.num, 10 * stated.den))
            /\ SameQuot(ps.aggressive, Quot(13 * stated.num, 10 * stated.den))
            /\ QLe(ps.conservative, ps.recommended)
            /\ QLe(ps.recommended, ps.aggressive)
            /\ QLe(ps.recommended, Quot(2, 100))

\* moderate IV, extreme negative GEX, confidence 9/14: 1.5% x 0.7 x 0.643
C17_Witness ==
    /\ Recommended
    /\ Has(setup_results, "gex")
    /\ setup_results.gex = -1001
    /\ setup_results.vwiv = 30
    /\ setup_results.confidence = Quot(900, 14)
    /\ SameQuot(risk_results.position_size.recommended,
                Quot(15 * 7 * 9, 10000 * 14))

StatedStopPercent(iv) ==
    IF iv < 30 THEN 2 ELSE IF iv < 45 THEN 3 ELSE IF iv < 60 THEN 5 ELSE 7

\* C18: with a non-zero price the technical stop is nearest support x 0.99
\* (bullish) or nearest resistance x 1.01 (bearish); with that list empty,
\* ema20 x 0.99 or x 1.01 if ema20 > 0, else the percentage fallback; for any
\* other setup current_price x (1 - p), p being 2, 3, 5, 7% by VWIV tier.
\* With a price of 0 both stops are 0.  (Stops in hundredths.)
C18_TechnicalStop ==
    Recommended =>
        LET sr == setup_results
            price == Get(sr, "current_price", 0)
            p == StatedStopPercent(Get(sr, "vwiv", 30))
            stop == risk_results.stop_loss
        IN  IF price = 0 THEN stop.technical = 0 /\ stop.percentage = 0
            ELSE IF sr.setup = <<"bullish">>
            THEN stop.technical =
                    (IF sr.support # <<>> THEN sr.support[1] * 99
                     ELSE IF sr.ema20 > 0 THEN sr.ema20 * 99
                     ELSE price * (100 - p))
            ELSE IF sr.setup = <<"bearish">>
            THEN stop.technical =
                    (IF sr.resistance # <<>> THEN sr.resistance[1] * 101
                     ELSE IF sr.ema20 > 0 THEN sr.ema20 * 101
                     ELSE price * (100 + p))
            ELSE stop.technical = price * (100 - p)

\* a bearish setup with no resistance and no ema20 at high IV: the stop is the
\* percentage fallback, 5% above the price
C18_Witness ==
    /\ Recommended
    /\ setup_results.setup = <<"bearish">>
    /\ Get(setup_results, "current_price", 0) = 100
    /\ setup_results.resistance = <<>>
    /\ setup_results.ema20 = 0
    /\ setup_results.vwiv = 45
    /\ risk_results.stop_loss.technical = 100 * 105

(***************************************************************************)
(* Claims about scan(), checked under SpecScanFair.                        *)
(***************************************************************************)
\* the symbols whose analysis raises nothing, succeeds and passes the filters
Succeeded ==
    {i \in 1..Len(market) :
        /\ market[i].raises = "none"
        /\ market[i].context.success
        /\ market[i].levels.success
        /\ _analyze_symbol(config.filters, i, market[i]) # NoDict}

ScanReturnsSucceeded ==
    pc = "done" =>
        /\ error = "none"
        /\ Len(results) = Cardinality(Succeeded)
        /\ \A i \in Succeeded :
              \E k \in 1..Len(results) :
                  results[k] = _analyze_symbol(config.filters, i, market[i])
        /\ \A k \in 1..Len(results) : results[k].symbol \in Succeeded

\* the steps scan() still has to take: submit, three per task not yet
\* started (start, finish, collect) and the return
StepsLeft(f) ==
    IF f.state = "pending" THEN 3
    ELSE IF f.state = "running" THEN 2
    ELSE IF f.state = "done" THEN 1
    ELSE 0

RECURSIVE TaskStepsLeft(_)
TaskStepsLeft(fs) ==
    IF fs = <<>> THEN 0 ELSE StepsLeft(Head(fs)) + TaskStepsLeft(Tail(fs))

Remaining ==
    IF pc = "start" THEN 3 * Len(market) + 2
    ELSE IF pc = "collect" THEN TaskStepsLeft(futures) + 1
    ELSE 0

\* some thread of the scan can take a step
CanStep ==
    \/ pc = "start"
    \/ \E i \in 1..Len(futures) :
          futures[i].state = "pending" /\ Cardinality(Running) < config.max_workers
    \/ \E i \in 1..Len(futures) : futures[i].state = "running"
    \/ \E i \in 1..Len(futures) : pc = "collect" /\ futures[i].state = "done"
    \/ pc = "collect" /\ \A i \in 1..Len(futures) : futures[i].state = "collected"

\* C16: when the analysis of a symbol raises, scan() still terminates, raises
\* nothing and returns the record of every other symbol that succeeded and
\* passed the filters; the failing symbol contributes no record.
\* Termination: until scan() has returned some thread can step, and every
\* step lowers the number of steps left, so under the fair scheduling of
\* SpecScanFair the scan reaches its return.
C16_ScanSurvivesFailures ==
    /\ []ScanReturnsSucceeded
    /\ [](pc # "done" => CanStep)
    /\ [][Remaining' < Remaining]_vars

\* a finished scan in which one symbol raised and another gave a record
C16_Witness ==
    /\ pc = "done"
    /\ \E i \in 1..Len(market) : market[i].raises = "context"
    /\ \E i \in 1..Len(market) : market[i].raises = "signals"
    /\ Len(results) = 1

(***************************************************************************)
(* Further claims about the setup scorer, checked under SpecSetup.         *)
(***************************************************************************)
\* C24: the winner of determine_setup has the highest confidence of the three
\* candidates, and no candidate before it in the order bullish, bearish,
\* neutral has the same confidence: sorting by confidence alone selects it.
C24_WinnerHasMaxConfidence ==
    Scored =>
        LET all == setup_results.all_setups
            w == BaseLabel(setup_results.setup)
        IN  /\ \A n \in {"bullish", "bearish", "neutral"} :
                  ~QLt(all[w].confidence, all[n].confidence)
            /\ (w = "bearish" => ~QEq(all.bullish.confidence, all.bearish.confidence))
            /\ (w = "neutral" => /\ ~QEq(all.bullish.confidence, all.neutral.confidence)
                                 /\ ~QEq(all.bearish.confidence, all.neutral.confidence))

\* a valid neutral winner over a bullish and a bearish candidate that are
\* not valid and differ in confidence
C24_Witness ==
    /\ Scored
    /\ setup_results.setup = <<"neutral">>
    /\ setup_results.all_setups.neutral.valid
    /\ ~setup_results.all_setups.bullish.valid
    /\ ~setup_results.all_setups.bearish.valid
    /\ QLt(setup_results.all_setups.bearish.confidence,
           setup_results.all_setups.bullish.confidence)

BullishPoints(ctx, lv) == SumPoints(BullishCriteria(ctx, lv))
BearishPoints(ctx, lv) == SumPoints(BearishCriteria(ctx, lv))

\* C26: with gex = 0 the bullish and the bearish points sum to at most 16 and
\* the two candidates are never both valid.
C26_BullishBearishNotBothValid ==
    (Scored /\ context.gex = 0) =>
        /\ BullishPoints(context, levels) + BearishPoints(context, levels) <= 16
        /\ ~(setup_results.all_setups.bullish.valid
             /\ setup_results.all_setups.bearish.valid)

\* the two candidates share 16 points: price between a near support and a
\* near resistance, RSI on the boundary 45 that scores on both sides
C26_Witness ==
    /\ Scored
    /\ context.gex = 0
    /\ context.rsi = 45
    /\ levels.support = <<99>>
    /\ levels.resistance = <<101>>
    /\ BullishPoints(context, levels) + BearishPoints(context, levels) = 16
    /\ setup_results.all_setups.bullish.valid

\* the mirrored context: trends swapped, PCR 2 - PCR, RSI and stochastic RSI
\* 100 - x, GEX negated
MirrorContext(ctx) ==
    [ctx EXCEPT !.trend = IF @ = "bullish" THEN "bearish"
                          ELSE IF @ = "bearish" THEN "bullish" ELSE @,
                !.pcr = 200 - @,
                !.rsi = 100 - @,
                !.stoch_rsi = 100 - @,
                !.gex = -@]

\* the mirrored levels: the nearest resistance s and the price 2s - p give
\* the ratio (2s - p) / s = 2 - p / s, for the nearest support s and price p
MirrorLevels(lv) ==
    IF lv.support = <<>> THEN [lv EXCEPT !.resistance = <<>>]
    ELSE [lv EXCEPT !.resistance = <<lv.support[1]>>,
                    !.current_price = 2 * lv.support[1] - @]

\* C27: the bearish points and confidence on the mirrored input equal the
\* bullish points and confidence on the input.
C27_BearishMirrorsBullish ==
    Scored =>
        LET mirrored == _evaluate_bearish_setup(MirrorContext(context),
                                                MirrorLevels(levels))
        IN  /\ BearishPoints(MirrorContext(context), MirrorLevels(levels))
                  = BullishPoints(context, levels)
            /\ mirrored.confidence = setup_results.all_setups.bullish.confidence
            /\ mirrored.valid = setup_results.all_setups.bullish.valid

\* a stochastic RSI on the boundary 60 (mirrored to 40), a price approaching
\* its support and a positive GEX
C27_Witness ==
    /\ Scored
    /\ context.stoch_rsi = 60
    /\ context.gex = 600
    /\ context.trend = "bullish"
    /\ levels.support = <<96, 90>>
    /\ BullishPoints(context, levels) >= 9
    /\ BearishPoints(MirrorContext(context), MirrorLevels(levels)) >= 9

(***************************************************************************)
(* Further claims about the confirmation module, checked under             *)
(* SpecConfirm.                                                            *)
(***************************************************************************)
\* the weight and the reason of a condition that holds, nothing otherwise
Weight(holds, weight) == IF holds THEN weight ELSE 0
Reason(holds, reason) == IF holds THEN <<reason>> ELSE <<>>

\* the five conditions of the bullish entry check, in order
BullishEntryConditions ==
    LET sr == setup_results
        latest == data.latest
        prev == data.prev
    IN  << /\ Lt(prev.Stoch_RSI, 60)
           /\ Gt(latest.Stoch_RSI, prev.Stoch_RSI)
           /\ Gt(latest.Stoch_RSI_D, prev.Stoch_RSI_D),
           Gt(latest.Volume_Ratio, 150),
           /\ Has(sr, "support") /\ sr.support # <<>>
           /\ Abs(latest.Close - sr.support[1]) * 100 < 2 * sr.support[1],
           /\ Has(sr, "ema10") /\ Has(sr, "ema20")
           /\ latest.Close > sr.ema10 /\ latest.Close > sr.ema20,
           /\ Has(sr, "rsi") /\ Gt(sr.rsi, prev.RSI) /\ sr.rsi > 50 >>

\* the five conditions of the bearish entry check, in order
BearishEntryConditions ==
    LET sr == setup_results
        latest == data.latest
        prev == data.prev
    IN  << /\ Gt(prev.Stoch_RSI, 40)
           /\ Lt(latest.Stoch_RSI, prev.Stoch_RSI)
           /\ Lt(latest.Stoch_RSI_D, prev.Stoch_RSI_D),
           Gt(latest.Volume_Ratio, 150),
           /\ Has(sr, "resistance") /\ sr.resistance # <<>>
           /\ Abs(latest.Close - sr.resistance[1]) * 100 < 2 * sr.resistance[1],
           /\ Has(sr, "ema10") /\ Has(sr, "ema20")
           /\ latest.Close < sr.ema10 /\ latest.Close < sr.ema20,
           /\ Has(sr, "rsi") /\ Lt(sr.rsi, prev.RSI) /\ sr.rsi < 50 >>

EntryWeights == <<30, 20, 25, 15, 10>>

BullishEntryReasons ==
    <<"Stochastic RSI hooking up from below 60", "Volume spike",
      "Price near support level", "Price above key EMAs",
      "RSI showing upward momentum">>

BearishEntryReasons ==
    <<"Stochastic RSI hooking down from above 40", "Volume spike",
      "Price near resistance level", "Price below key EMAs",
      "RSI showing downward momentum">>

\* the result the claim C21 states for conditions c with reasons r
StatedEntry(c, r) ==
    [strength |-> Weight(c[1], 30) + Weight(c[2], 20) + Weight(c[3], 25)
                  + Weight(c[4], 15) + Weight(c[5], 10),
     reasons |-> Reason(c[1], r[1]) \o Reason(c[2], r[2]) \o Reason(c[3], r[3])
                 \o Reason(c[4], r[4]) \o Reason(c[5], r[5])]

\* C21: on 5 rows or more the bullish (bearish) entry check returns the sum
\* of the weights 30, 20, 25, 15, 10 of the conditions that hold, one reason
\* per such condition in that order, a signal exactly when the strength is
\* above 50, and a strength within 0..100.
C21_EntryStrength ==
    (pc \in {"bullish_entry", "bearish_entry"} /\ data.len >= 5) =>
        LET stated == IF pc = "bullish_entry"
                      THEN StatedEntry(BullishEntryConditions, BullishEntryReasons)
                      ELSE StatedEntry(BearishEntryConditions, BearishEntryReasons)
            r == confirmation_results
        IN  /\ r.strength = stated.strength
            /\ r.reasons = stated.reasons
            /\ r.signal = (r.strength > 50)
            /\ r.strength \in 0..100

\* the hook and the volume spike alone: strength 50 and no signal
C21_Witness ==
    /\ pc = "bullish_entry"
    /\ data.len = 30
    /\ Has(setup_results, "support")
    /\ confirmation_results.strength = 50
    /\ confirmation_results.reasons =
          <<"Stochastic RSI hooking up from below 60", "Volume spike">>
    /\ confirmation_results.signal = FALSE

\* the conditions of the exit check for a bullish and for a bearish setup,
\* in order; the crossover compares the Close of the row before with the
\* ema10 of the input
BullishExitConditions ==
    LET sr == setup_results
        latest == data.latest
        prev == data.prev
    IN  << sr.rsi > 80,
           Gt(prev.Stoch_RSI, latest.Stoch_RSI) /\ Gt(prev.Stoch_RSI, 80),
           /\ sr.resistance # <<>>
           /\ Abs(latest.Close - sr.resistance[1]) * 100 < sr.resistance[1],
           latest.Close < sr.ema10 /\ prev.Close >= sr.ema10 >>

BearishExitConditions ==
    LET sr == setup_results
        latest == data.latest
        prev == data.prev
    IN  << sr.rsi < 20,
           Lt(prev.Stoch_RSI, latest.Stoch_RSI) /\ Lt(prev.Stoch_RSI, 20),
           /\ sr.support # <<>>
           /\ Abs(latest.Close - sr.support[1]) * 100 < sr.support[1],
           latest.Close > sr.ema10 /\ prev.Close <= sr.ema10 >>

StatedExitStrength(c) ==
    Weight(c[1], 30) + Weight(c[2], 25) + Weight(c[3], 25) + Weight(c[4], 20)

\* an exit check on 5 rows or more of a bullish or bearish setup whose input
\* carries rsi, support, resistance, ema10 and ema20
ExitChecked ==
    /\ pc = "exit"
    /\ data.len >= 5
    /\ setup_results.setup \in {<<"bullish">>, <<"bearish">>}
    /\ {"rsi", "support", "resistance", "ema10", "ema20"} \subseteq DOMAIN setup_results

\* C22: the exit check of a bullish (bearish) setup returns, without raising,
\* the sum of the weights 30, 25, 25, 20 of the conditions that hold, with a
\* signal exactly when the strength is above 50.
C22_ExitStrength ==
    ExitChecked =>
        /\ error = "none"
        /\ confirmation_results # NoDict
        /\ confirmation_results.strength =
              StatedExitStrength(IF setup_results.setup = <<"bullish">>
                                 THEN BullishExitConditions
                                 ELSE BearishExitConditions)
        /\ confirmation_results.signal = (confirmation_results.strength > 50)

\* whenever the exit check returns, the crossover has added nothing: the
\* strength is the sum over the first three conditions
C22_ExitStrengthWhenReturned ==
    (ExitChecked /\ error = "none") =>
        LET c == IF setup_results.setup = <<"bullish">>
                 THEN BullishExitConditions ELSE BearishExitConditions
        IN  /\ confirmation_results.strength =
                  Weight(c[1], 30) + Weight(c[2], 25) + Weight(c[3], 25)
            /\ confirmation_results.signal = (confirmation_results.strength > 50)
            /\ IF setup_results.setup = <<"bullish">>
               THEN data.latest.Close >= setup_results.ema10
               ELSE data.latest.Close <= setup_results.ema10

\* the exit check raises as soon as the Close is on the far side of ema10
C22_ExitRaisesOnCrossover ==
    (ExitChecked /\ setup_results.setup = <<"bullish">>
     /\ data.latest.Close < setup_results.ema10) => error = "KeyError"

NeitherBullishNorBearish(label) ==
    label = <<>> \/ label[1] \notin {"bullish", "bearish"}

\* C28: on 5 rows or more the exit check of a setup whose label starts with
\* neither 'bullish' nor 'bearish' returns (False, 0, []) and raises nothing,
\* whatever the indicators and levels are.
C28_NoExitForOtherSetups ==
    (pc = "exit" /\ data.len >= 5 /\ NeitherBullishNorBearish(setup_results.setup)) =>
        /\ error = "none"
        /\ confirmation_results =
              [signal |-> FALSE, strength |-> 0, reasons |-> <<>>]

\* a weak_bullish setup with an overbought RSI, a stochastic RSI falling from
\* above 80, the Close within 1% of the resistance and below ema10
C28_Witness ==
    /\ pc = "exit"
    /\ data.len = 30
    /\ setup_results.setup = <<"weak_", "bullish">>
    /\ Has(setup_results, "rsi")
    /\ setup_results.rsi = 85
    /\ setup_results.resistance = <<101>>
    /\ setup_results.ema10 = 101
    /\ data.prev.Stoch_RSI = 85
    /\ data.latest.Stoch_RSI = 30
    /\ confirmation_results.strength = 0
    /\ confirmation_results.reasons = <<>>

(***************************************************************************)
(* Further claims about scan(), checked under SpecScan.                    *)
(***************************************************************************)
\* filters that let every record through
NoFilters ==
    [trend |-> {"bullish", "bearish", "neutral", "unknown"},
     pcr_min |-> 0, pcr_max |-> 1000,
     rsi_min |-> 0, rsi_max |-> 100,
     stoch_rsi_min |-> 0, stoch_rsi_max |-> 100,
     min_confidence |-> 0]

\* the record the pipeline builds for symbol i before any filter (NoDict when
\* a stage fails or raises)
RecordOf(i) == _analyze_symbol(NoFilters, i, market[i])

\* the configured filters, as the claim C23 lists them
Satisfies(filters, r) ==
    /\ r.market_context.trend \in filters.trend
    /\ filters.pcr_min <= r.market_context.pcr
    /\ r.market_context.pcr <= filters.pcr_max
    /\ filters.rsi_min <= r.market_context.rsi
    /\ r.market_context.rsi <= filters.rsi_max
    /\ filters.stoch_rsi_min <= r.market_context.stoch_rsi
    /\ r.market_context.stoch_rsi <= filters.stoch_rsi_max
    /\ r.confidence.num >= filters.min_confidence * r.confidence.den

Positions(i) == {k \in 1..Len(results) : results[k].symbol = i}

\* C23: every record scan() returns satisfies all the configured filters and
\* is the record the pipeline built, unchanged; every symbol whose context
\* and levels succeeded and whose record satisfies the filters is in the list
\* exactly once.
C23_FiltersSelectRecords ==
    pc = "done" =>
        /\ \A k \in 1..Len(results) :
              /\ Satisfies(config.filters, results[k])
              /\ results[k] = RecordOf(results[k].symbol)
        /\ \A i \in 1..Len(market) :
              (/\ market[i].raises = "none"
               /\ market[i].context.success
               /\ market[i].levels.success
               /\ RecordOf(i) # NoDict
               /\ Satisfies(config.filters, RecordOf(i)))
                  => Cardinality(Positions(i)) = 1

\* a scan under the custom filters that kept a weak record of confidence 57
\* and dropped a valid one of confidence 64 for its PCR alone
C23_Witness ==
    /\ pc = "done"
    /\ config.filters = CustomFilters
    /\ \E k \in 1..Len(results) : results[k].confidence = Quot(800, 14)
    /\ \E i \in 1..Len(market) :
          /\ RecordOf(i) # NoDict
          /\ RecordOf(i).market_context.pcr = 60
          /\ RecordOf(i).confidence = Quot(900, 14)
          /\ Positions(i) = {}
    /\ Len(results) = 2

\* C25: with the default filters no record of self.results has a weak_
\* label, and no confidence 100 x points / 14 or 100 x points / 16 is 60.
C25_NoWeakLabelByDefault ==
    /\ config.filters = DefaultFilters =>
          \A k \in 1..Len(results) : ~IsWeak(results[k].setup)
    /\ \A points \in 0..14 : 100 * points # 60 * 14
    /\ \A points \in 0..16 : 100 * points # 60 * 16

\* a scan under the default filters that dropped a symbol whose winner is
\* weak (confidence 57) and returned another
C25_Witness ==
    /\ pc = "done"
    /\ config.filters = DefaultFilters
    /\ \E i \in 1..Len(market) :
          /\ RecordOf(i) # NoDict
          /\ IsWeak(RecordOf(i).setup)
          /\ RecordOf(i).confidence = Quot(800, 14)
          /\ Positions(i) = {}
    /\ Len(results) = 1

\* the records of a scan, by its symbols and filters alone
ExpectedRecords ==
    {_analyze_symbol(config.filters, i, market[i]) : i \in 1..Len(market)}
        \ {NoDict}

\* C29: the records scan() returns are the same set whatever the order in
\* which the tasks complete and whatever max_workers is, each once, and the
\* list is in non-increasing order of confidence.
C29_ResultSetIndependentOfOrder ==
    pc = "done" =>
        /\ Range(results) = ExpectedRecords
        /\ Len(results) = Cardinality(ExpectedRecords)
        /\ \A k \in 1..(Len(results) - 1) :
              ~QLt(results[k].confidence, results[k + 1].confidence)

\* two workers, three records: the two of equal confidence are in the order
\* in which they were collected, the later symbol first
C29_Witness ==
    /\ pc = "done"
    /\ config.max_workers = 2
    /\ Len(results) = 3
    /\ results[1].confidence = results[2].confidence
    /\ results[1].symbol > results[2].symbol
    /\ QLt(results[3].confidence, results[2].confidence)

(***************************************************************************)
(* Claim about concurrent scans on the shared scanner of the web app,      *)
(* checked under SpecShared.                                               *)
(***************************************************************************)
\* C30: every scan() call returns only records built during that call, and
\* at most one record per symbol, also when another call runs on the same
\* scanner at the same time.
C30_ScanReturnsOwnRecords ==
    \A c \in Requests :
        pc[c] = "done" =>
            /\ \A k \in 1..Len(returned[c]) : returned[c][k].timestamp = c
            /\ \A k, l \in 1..Len(returned[c]) :
                  returned[c][k].symbol = returned[c][l].symbol => k = l

\* a call that returns two records of one symbol, one of them built by the
\* other call
C30_SharedResultsMix ==
    ~ \E c \in Requests :
        /\ pc[c] = "done"
        /\ \E k, l \in 1..Len(returned[c]) :
              /\ returned[c][k].symbol = returned[c][l].symbol
              /\ returned[c][k].timestamp = c
              /\ returned[c][l].timestamp # c

====
